---- MODULE Spec2Model ----
(***************************************************************************)
(* Order fulfilment workflows of the inventory-microservices repository.   *)
(*                                                                         *)
(* The order service (createOrder, createBulkOrder) validates a request    *)
(* against a product snapshot fetched from the inventory service, persists *)
(* order rows in its own store, then writes the new stock back to the      *)
(* inventory service and publishes an order_created event.                 *)
(*                                                                         *)
(* Every HTTP request handled by the order service is one process of the   *)
(* model.  A step of a process is one operation on shared state (the       *)
(* inventory ledger, the order store, the event topic) together with the   *)
(* local statements that follow it up to the next such operation.          *)
(*                                                                         *)
(* Money is counted in cents: prices are DECIMAL(10,2) columns, so a price *)
(* times an integer quantity is a whole number of cents, and the float64   *)
(* product is rounded back to cents by the DECIMAL(10,2) column of the     *)
(* order row.                                                              *)
(***************************************************************************)
EXTENDS Integers, Sequences, FiniteSets, Bags

\* ------------------------------------------------------------------ bounds

MaxLoad == 2        \* line items of all requests together (a request counts as one at least)
InitStock == 1      \* stock of every product at start
MaxPriceUpdates == 1 \* price changes made by other clients of the inventory
MaxReads == 1       \* read requests answered

Procs == {1, 2}     \* the requests, all of them concurrent
Products == {1, 2}
Quantities == {-1} \cup (0..(InitStock + 1))
UserIds == {0, 1}
Prices == {3, 5}

\* ------------------------------------------------------- program constants

StatusCreated == 201
StatusBadRequest == 400
StatusInternalServerError == 500
StatusOK == 200
StatusNotFound == 404
LowStockThreshold == 10   \* if p.Stock < 10
DefaultLimit == 50   \* limit := 50
LimitCap == 1000     \* if limit > 1000 { limit = 1000 }
NoResponse == 0   \* nothing has been written to the ResponseWriter

\* ------------------------------------------------------------------- state

VARIABLES
    ledger,     \* inventory service: products table, by product id
    orders,     \* order service: committed rows of the orders table
    nextId,     \* next value of the orders.id sequence
    topic,      \* order-events topic: the messages written to it, as a bag
    priceUpdates, \* price changes made so far by other clients of the inventory
    pc,         \* per request: the statement the handler is at
    kind,       \* per request: "single" (POST /orders) or "bulk" (POST /orders/bulk)
    items,      \* per request: the decoded line items
    userId,     \* per request: the decoded user_id
    snaps,      \* per request: the products fetched so far (validatedItems[].Product)
    created,    \* per request: the orders built so far (order / createdOrders)
    idx,        \* per request: position of the running loop
    resp,       \* per request: what has been written to the ResponseWriter
    tx,         \* per request: the rows inserted in its open transaction
    store,      \* per request: outcome of its store operations
    failed,     \* per request: why it was rejected before the store was used, and
                \* the line item whose validation failed
    updLog,     \* per request: outcome of each updateProductStock call, in call order
    pubLog,     \* per request: outcome of each publishEvent call, in call order
    fetchLog,   \* per request: the line item of each getProductInfo call, in call order
    reads,      \* read requests (GET /orders...) answered so far
    readResp,   \* what the last read request was answered
    invPubLog,  \* inventory service: the events handed to publishEvent, in call order
    gwPc,       \* gateway: where its request is ("idle", "proxy", "done")
    gwReq,      \* gateway: the request as the handler receives it (r)
    doLog,      \* gateway: the requests handed to httpClient.Do, as the backend reads them
    gwResp,     \* gateway: what has been written to the client's ResponseWriter
    produced,   \* messages other producers have written to the order-events topic
    consumed,   \* payment service: the messages its reader has returned, as a bag
    payPc,      \* payment service: where its consumer is ("read", "publish")
    payEvent,   \* payment service: the paymentEvent of the running processPayment
    payments,   \* payment service: rows of the payments table
    payNextId,  \* next value of the payments.id sequence
    paymentTopic, \* payment-events topic: the messages written to it, as a bag
    payLog,     \* payment service: each message read and what became of it, in order
    notifPc,    \* notification service: "running", or "crashed" after a panic
    notifConsumed, \* notification service: per topic, the messages its reader has returned
    notifLog    \* notification service: the event types it has logged a notification for

vars == <<ledger, orders, nextId, topic, priceUpdates, pc, kind, items, userId, snaps,
          created, idx, resp, tx, store, failed, updLog, pubLog, fetchLog, reads, readResp,
          invPubLog, gwPc, gwReq, doLog, gwResp, produced, consumed, payPc, payEvent,
          payments, payNextId, paymentTopic, payLog, notifPc, notifConsumed, notifLog>>

procVars == <<pc, kind, items, userId, snaps, created, idx, resp, tx, store, failed,
              updLog, pubLog, fetchLog>>

readVars == <<reads, readResp>>

gwVars == <<gwPc, gwReq, doLog, gwResp>>

payVars == <<consumed, payPc, payEvent, payments, payNextId, paymentTopic, payLog>>

notifVars == <<notifPc, notifConsumed, notifLog>>

\* The topics the notification service reads
Topics == {"inventory-events", "order-events", "payment-events"}

\* processPayment is not running
NoEvent == [event_type |-> ""]

\* The gateway has received no request / has written no response
NoRequest == [method |-> "", path |-> <<>>, rawQuery |-> <<>>, header |-> {}, body |-> ""]
NoGwResp == [status |-> NoResponse, header |-> {}, body |-> ""]

NoFailure == [line |-> 0, cause |-> "none"]

Item(product_id, quantity) == [product_id |-> product_id, quantity |-> quantity]

ItemSeqs(n) == [1..n -> [product_id : Products, quantity : Quantities]]

\* What a request with n line items counts for
Cost(n) == IF n = 0 THEN 1 ELSE n

RECURSIVE SumCost(_, _, _)
SumCost(k, its, S) ==
    IF S = {} THEN 0
    ELSE LET x == CHOOSE y \in S : TRUE
         IN (IF k[x] = "none" THEN 0 ELSE Cost(Len(its[x]))) + SumCost(k, its, S \ {x})

\* What the requests received so far count for
Load == SumCost(kind, items, Procs)

NoResp == [status |-> NoResponse, msg |-> "", product |-> 0, orders |-> <<>>]

\* http.Error(w, msg, code), naming a product where the message does
Error(code, msg, product) ==
    [status |-> code, msg |-> msg, product |-> product, orders |-> <<>>]

\* w.WriteHeader(http.StatusCreated); json.NewEncoder(w).Encode(...)
Created(os) ==
    [status |-> StatusCreated, msg |-> "", product |-> 0, orders |-> os]

Init ==
    /\ ledger = [id \in Products |->
                    [id |-> id, name |-> "Laptop", description |-> "High-performance laptop",
                     price |-> 3, stock |-> InitStock]]
    /\ orders = {}
    /\ nextId = 1
    /\ topic = EmptyBag
    /\ priceUpdates = 0
    /\ pc = [p \in Procs |-> "idle"]
    /\ kind = [p \in Procs |-> "none"]
    /\ items = [p \in Procs |-> <<>>]
    /\ userId = [p \in Procs |-> 0]
    /\ snaps = [p \in Procs |-> <<>>]
    /\ created = [p \in Procs |-> <<>>]
    /\ idx = [p \in Procs |-> 0]
    /\ resp = [p \in Procs |-> NoResp]
    /\ tx = [p \in Procs |-> {}]
    /\ store = [p \in Procs |-> "none"]
    /\ failed = [p \in Procs |-> NoFailure]
    /\ updLog = [p \in Procs |-> <<>>]
    /\ pubLog = [p \in Procs |-> <<>>]
    /\ fetchLog = [p \in Procs |-> <<>>]
    /\ reads = 0
    /\ readResp = NoResp
    /\ invPubLog = <<>>
    /\ gwPc = "idle"
    /\ gwReq = NoRequest
    /\ doLog = <<>>
    /\ gwResp = NoGwResp
    /\ produced = 0
    /\ consumed = EmptyBag
    /\ payPc = "read"
    /\ payEvent = NoEvent
    /\ payments = {}
    /\ payNextId = 1
    /\ paymentTopic = EmptyBag
    /\ payLog = <<>>
    /\ notifPc = "running"
    /\ notifConsumed = [t \in Topics |-> EmptyBag]
    /\ notifLog = <<>>

\* ------------------------------------------------------- inventory service

FetchOutcomes == {"ok", "unreachable", "timeout", "non200"}
UpdateOutcomes == {"ok", "unreachable", "non200"}

\* What updateProductStock returns: nil, or an error, which its callers only log
UpdateResult(outcome) == IF outcome = "ok" THEN "ok" ELSE "failed"
PublishOutcomes == {"ok", "failed"}
StoreOutcomes == {"ok", "failed"}

\* A client that answers from a process-wide cache: a product some request has
\* fetched before is not fetched again
getProduct_Cached(id) ==
    IF \E q \in Procs : \E k \in 1..Len(snaps[q]) : snaps[q][k].id = id
    THEN LET q == CHOOSE q \in Procs : \E k \in 1..Len(snaps[q]) : snaps[q][k].id = id
             k == CHOOSE k \in 1..Len(snaps[q]) : snaps[q][k].id = id
         IN snaps[q][k]
    ELSE [id |-> id, name |-> ledger[id].name, price |-> ledger[id].price,
          stock |-> ledger[id].stock]

\* GET /products/{id}: the products row as the order service decodes it
getProduct(id) ==
    [id |-> id, name |-> ledger[id].name, price |-> ledger[id].price,
     stock |-> ledger[id].stock]

\* PUT /products/{id}: UPDATE products SET name = $1, description = $2, price = $3,
\* stock = $4 WHERE id = $5
updateProduct(l, id, name, description, price, stock) ==
    [l EXCEPT ![id] = [id |-> id, name |-> name, description |-> description,
                       price |-> price, stock |-> stock]]

\* The event maps updateProduct hands to publishEvent (name and timestamp left out)
ProductEvent(type, id, stock) == [event_type |-> type, product_id |-> id, stock |-> stock]

\* A low stock check that counts a stock of exactly the threshold as low
LowStock_Inclusive(stock) == stock <= LowStockThreshold

\* if p.Stock < 10
LowStock(stock) == stock < LowStockThreshold

\* The publishEvent calls of updateProduct after its UPDATE changed a row:
\* product_updated, then low_stock_alert when the stock written is low
updateProduct_Events(log, id, stock) ==
    log \o <<ProductEvent("product_updated", id, stock)>>
        \o (IF LowStock(stock) THEN <<ProductEvent("low_stock_alert", id, stock)>> ELSE <<>>)

\* ----------------------------------------------------------- order service

\* The inventory's publishEvent calls caused by updateProductStock: those of
\* updateProduct when the PUT is answered 200; none when the request does not
\* reach the handler or the handler returns early (404, 500).
updateProductStock_Events(log, productID, newStock, outcome) ==
    IF outcome = "ok" THEN updateProduct_Events(log, productID, newStock) ELSE log

\* The ledger after updateProductStock(baseURL, productID, product, newStock): the
\* PUT carries the snapshot's price and the new stock; it changes the ledger only
\* when the request reaches the inventory service and is answered 200.
updateProductStock(l, productID, product, newStock, outcome) ==
    IF outcome = "ok"
    THEN updateProduct(l, productID, product.name, "", product.price, newStock)
    ELSE l

\* The topic after publishEvent(event): one WriteMessages call, its error logged.
publishEvent(t, event, outcome) ==
    IF outcome = "ok" THEN t (+) SetToBag({event}) ELSE t

\* A stock check with its comparison the wrong way round
InsufficientStock_Reversed(product, quantity) == quantity < product.stock

\* A stock check that lets a request for one unit more than the stock through
InsufficientStock_OffByOne(product, quantity) == product.stock + 1 < quantity

\* A stock check that only asks whether the product is in stock at all
InsufficientStock_InStockOnly(product, quantity) == product.stock <= 0

\* product.Stock < orderReq.Quantity
InsufficientStock(product, quantity) == product.stock < quantity

\* A total computed from the price the ledger holds when the row is inserted
TotalPrice_AtInsert(product, quantity) == ledger[product.id].price * quantity

\* totalPrice := product.Price * float64(orderReq.Quantity)
TotalPrice(product, quantity) == product.price * quantity

\* A new stock that takes one unit off whatever the quantity
NewStock_OneUnit(product, quantity) == product.stock - 1

\* newStock := product.Stock - orderReq.Quantity
NewStock(product, quantity) == product.stock - quantity

\* An Order that is returned without the request's user id
SingleOrder_NoUser(id, item, user, total) ==
    [id |-> id, user_id |-> 0, product_id |-> item.product_id,
     quantity |-> item.quantity, total_price |-> total, status |-> "confirmed"]

\* The Order createOrder builds from the request after INSERT ... RETURNING id
SingleOrder(id, item, user, total) ==
    [id |-> id, user_id |-> user, product_id |-> item.product_id,
     quantity |-> item.quantity, total_price |-> total, status |-> "confirmed"]

\* The Order createBulkOrder builds from a validated item; UserID keeps its zero value
BulkOrder(id, item, total) ==
    [id |-> id, user_id |-> 0, product_id |-> item.product_id,
     quantity |-> item.quantity, total_price |-> total, status |-> "confirmed"]

\* INSERT INTO orders (product_id, quantity, total_price, status, user_id) VALUES ...
\* by and line record the request and the line item the INSERT was issued for.
InsertSingle(id, item, user, total, p) ==
    [id |-> id, user_id |-> user, product_id |-> item.product_id,
     quantity |-> item.quantity, total_price |-> total, status |-> "confirmed",
     by |-> p, line |-> 1]

\* A bulk INSERT that files the new row under a user id of its own
InsertBulk_WithUser(id, item, total, p, k) ==
    [id |-> id, user_id |-> 1, product_id |-> item.product_id,
     quantity |-> item.quantity, total_price |-> total, status |-> "confirmed",
     by |-> p, line |-> k]

\* A bulk INSERT that leaves the new row pending
InsertBulk_Pending(id, item, total, p, k) ==
    [id |-> id, user_id |-> 0, product_id |-> item.product_id,
     quantity |-> item.quantity, total_price |-> total, status |-> "pending",
     by |-> p, line |-> k]

\* INSERT INTO orders (product_id, quantity, total_price, status) VALUES ...: the
\* user_id column takes its default, 0.
InsertBulk(id, item, total, p, k) ==
    [id |-> id, user_id |-> 0, product_id |-> item.product_id,
     quantity |-> item.quantity, total_price |-> total, status |-> "confirmed",
     by |-> p, line |-> k]

\* An INSERT issued on db instead of tx: the row is in the table at once
TxInsert_Autocommit(table, t, row) == [orders |-> table \cup {row}, tx |-> t \cup {row}]

\* tx.QueryRow(INSERT ...): the row is added to the transaction, not to the table
TxInsert(table, t, row) == [orders |-> table, tx |-> t \cup {row}]

\* event := map[string]interface{}{"event_type": "order_created", ...}
OrderCreated(o) ==
    [event_type |-> "order_created", order_id |-> o.id, product_id |-> o.product_id,
     quantity |-> o.quantity, total_price |-> o.total_price]

\* ---------------------------------------------- POST /orders (createOrder)

\* json.NewDecoder(r.Body).Decode fails: 400 before anything else happens.
createOrder_BadBody(p) ==
    /\ pc[p] = "idle"
    /\ Load < MaxLoad
    /\ kind' = [kind EXCEPT ![p] = "single"]
    /\ resp' = [resp EXCEPT ![p] = Error(StatusBadRequest, "decode error", 0)]
    /\ failed' = [failed EXCEPT ![p] = [line |-> 0, cause |-> "decode"]]
    /\ pc' = [pc EXCEPT ![p] = "done"]
    /\ UNCHANGED <<ledger, orders, nextId, topic, priceUpdates>>
    /\ UNCHANGED <<items, userId, snaps, created, idx, tx, store, updLog, pubLog, fetchLog>>
    /\ UNCHANGED readVars
    /\ UNCHANGED invPubLog
    /\ UNCHANGED gwVars
    /\ UNCHANGED <<produced, payVars, notifVars>>

\* Decode the body, fetch the product (getProductInfo), check the stock.
createOrder_Validate(p) ==
    /\ pc[p] = "idle"
    /\ Load < MaxLoad
    /\ \E product_id \in Products, quantity \in Quantities, user \in UserIds,
          outcome \in FetchOutcomes :
         LET product == getProduct(product_id) IN
         /\ kind' = [kind EXCEPT ![p] = "single"]
         /\ items' = [items EXCEPT ![p] = <<Item(product_id, quantity)>>]
         /\ userId' = [userId EXCEPT ![p] = user]
         /\ IF outcome # "ok"
            THEN /\ resp' = [resp EXCEPT ![p] =
                        Error(StatusInternalServerError, "Failed to fetch product info", 0)]
                 /\ failed' = [failed EXCEPT ![p] = [line |-> 1, cause |-> "fetch"]]
                 /\ pc' = [pc EXCEPT ![p] = "done"]
                 /\ UNCHANGED snaps
            ELSE /\ snaps' = [snaps EXCEPT ![p] = <<product>>]
                 /\ IF InsufficientStock(product, quantity)
                    THEN /\ resp' = [resp EXCEPT ![p] =
                                Error(StatusBadRequest, "Insufficient stock", 0)]
                         /\ failed' = [failed EXCEPT ![p] = [line |-> 1, cause |-> "stock"]]
                         /\ pc' = [pc EXCEPT ![p] = "done"]
                    ELSE /\ pc' = [pc EXCEPT ![p] = "insert"]
                         /\ UNCHANGED <<resp, failed>>
    /\ UNCHANGED <<ledger, orders, nextId, topic, priceUpdates>>
    /\ fetchLog' = [fetchLog EXCEPT ![p] = Append(@, 1)]
    /\ UNCHANGED <<created, idx, tx, store, updLog, pubLog>>
    /\ UNCHANGED readVars
    /\ UNCHANGED invPubLog
    /\ UNCHANGED gwVars
    /\ UNCHANGED <<produced, payVars, notifVars>>

\* A handler that writes the 201 as soon as the row is inserted
createOrder_Insert_RespondFirst(p) ==
    /\ pc[p] = "insert" /\ kind[p] = "single"
    /\ \E outcome \in StoreOutcomes :
         LET item == items[p][1]
             totalPrice == TotalPrice(snaps[p][1], item.quantity)
             order == SingleOrder(nextId, item, userId[p], totalPrice)
         IN
         IF outcome = "ok"
         THEN /\ orders' = orders \cup {InsertSingle(nextId, item, userId[p], totalPrice, p)}
              /\ nextId' = nextId + 1
              /\ created' = [created EXCEPT ![p] = <<order>>]
              /\ store' = [store EXCEPT ![p] = "committed"]
              /\ resp' = [resp EXCEPT ![p] = Created(<<order>>)]
              /\ pc' = [pc EXCEPT ![p] = "update"]
         ELSE /\ resp' = [resp EXCEPT ![p] =
                     Error(StatusInternalServerError, "store error", 0)]
              /\ store' = [store EXCEPT ![p] = "failed"]
              /\ pc' = [pc EXCEPT ![p] = "done"]
              /\ UNCHANGED <<orders, nextId, created>>
    /\ UNCHANGED <<ledger, topic, priceUpdates>>
    /\ UNCHANGED <<kind, items, userId, snaps, idx, tx, failed, updLog, pubLog, fetchLog>>
    /\ UNCHANGED readVars
    /\ UNCHANGED invPubLog
    /\ UNCHANGED gwVars
    /\ UNCHANGED <<produced, payVars, notifVars>>

\* A handler that writes the 500 when the INSERT fails and does not return
createOrder_Insert_NoReturn(p) ==
    /\ pc[p] = "insert" /\ kind[p] = "single"
    /\ \E outcome \in StoreOutcomes :
         LET item == items[p][1]
             totalPrice == TotalPrice(snaps[p][1], item.quantity)
         IN
         /\ created' = [created EXCEPT ![p] =
                           <<SingleOrder(nextId, item, userId[p], totalPrice)>>]
         /\ pc' = [pc EXCEPT ![p] = "update"]
         /\ IF outcome = "ok"
            THEN /\ orders' = orders \cup {InsertSingle(nextId, item, userId[p], totalPrice, p)}
                 /\ nextId' = nextId + 1
                 /\ store' = [store EXCEPT ![p] = "committed"]
                 /\ UNCHANGED resp
            ELSE /\ resp' = [resp EXCEPT ![p] =
                        Error(StatusInternalServerError, "store error", 0)]
                 /\ store' = [store EXCEPT ![p] = "failed"]
                 /\ UNCHANGED <<orders, nextId>>
    /\ UNCHANGED <<ledger, topic, priceUpdates>>
    /\ UNCHANGED <<kind, items, userId, snaps, idx, tx, failed, updLog, pubLog, fetchLog>>
    /\ UNCHANGED readVars
    /\ UNCHANGED invPubLog
    /\ UNCHANGED gwVars
    /\ UNCHANGED <<produced, payVars, notifVars>>

\* A handler whose INSERT is conditional: it gives up with 400 when a row already
\* in the table for the product, together with this order, exceeds the stock seen
createOrder_Insert_Reserve(p) ==
    /\ pc[p] = "insert" /\ kind[p] = "single"
    /\ \E outcome \in StoreOutcomes :
         LET item == items[p][1]
             totalPrice == TotalPrice(snaps[p][1], item.quantity)
             taken == \E r \in orders : /\ r.product_id = item.product_id
                                        /\ r.quantity + item.quantity > snaps[p][1].stock
         IN
         IF outcome = "ok" /\ ~taken
         THEN /\ orders' = orders \cup {InsertSingle(nextId, item, userId[p], totalPrice, p)}
              /\ nextId' = nextId + 1
              /\ created' = [created EXCEPT ![p] =
                                <<SingleOrder(nextId, item, userId[p], totalPrice)>>]
              /\ store' = [store EXCEPT ![p] = "committed"]
              /\ pc' = [pc EXCEPT ![p] = "update"]
              /\ UNCHANGED resp
         ELSE /\ resp' = [resp EXCEPT ![p] =
                     IF outcome = "ok" THEN Error(StatusBadRequest, "Insufficient stock", 0)
                     ELSE Error(StatusInternalServerError, "store error", 0)]
              /\ store' = [store EXCEPT ![p] = IF outcome = "ok" THEN "none" ELSE "failed"]
              /\ pc' = [pc EXCEPT ![p] = "done"]
              /\ UNCHANGED <<orders, nextId, created>>
    /\ UNCHANGED <<ledger, topic, priceUpdates>>
    /\ UNCHANGED <<kind, items, userId, snaps, idx, tx, failed, updLog, pubLog, fetchLog>>
    /\ UNCHANGED readVars
    /\ UNCHANGED invPubLog
    /\ UNCHANGED gwVars
    /\ UNCHANGED <<produced, payVars, notifVars>>

\* A handler that, when the INSERT fails, waits for the store and never returns
createOrder_Insert_Hang(p) ==
    /\ pc[p] = "insert" /\ kind[p] = "single"
    /\ \E outcome \in StoreOutcomes :
         LET item == items[p][1]
             totalPrice == TotalPrice(snaps[p][1], item.quantity)
         IN
         IF outcome = "ok"
         THEN /\ orders' = orders \cup {InsertSingle(nextId, item, userId[p], totalPrice, p)}
              /\ nextId' = nextId + 1
              /\ created' = [created EXCEPT ![p] =
                                <<SingleOrder(nextId, item, userId[p], totalPrice)>>]
              /\ store' = [store EXCEPT ![p] = "committed"]
              /\ pc' = [pc EXCEPT ![p] = "update"]
         ELSE /\ store' = [store EXCEPT ![p] = "failed"]
              /\ pc' = [pc EXCEPT ![p] = "wait"]
              /\ UNCHANGED <<orders, nextId, created>>
    /\ UNCHANGED resp
    /\ UNCHANGED <<ledger, topic, priceUpdates>>
    /\ UNCHANGED <<kind, items, userId, snaps, idx, tx, failed, updLog, pubLog, fetchLog>>
    /\ UNCHANGED readVars
    /\ UNCHANGED invPubLog
    /\ UNCHANGED gwVars
    /\ UNCHANGED <<produced, payVars, notifVars>>

\* db.QueryRow(INSERT INTO orders ... RETURNING id, created_at), then the Order is
\* filled in from the request.
createOrder_Insert(p) ==
    /\ pc[p] = "insert" /\ kind[p] = "single"
    /\ \E outcome \in StoreOutcomes :
         LET item == items[p][1]
             totalPrice == TotalPrice(snaps[p][1], item.quantity)
         IN
         IF outcome = "ok"
         THEN /\ orders' = orders \cup {InsertSingle(nextId, item, userId[p], totalPrice, p)}
              /\ nextId' = nextId + 1
              /\ created' = [created EXCEPT ![p] =
                                <<SingleOrder(nextId, item, userId[p], totalPrice)>>]
              /\ store' = [store EXCEPT ![p] = "committed"]
              /\ pc' = [pc EXCEPT ![p] = "update"]
              /\ UNCHANGED resp
         ELSE /\ resp' = [resp EXCEPT ![p] =
                     Error(StatusInternalServerError, "store error", 0)]
              /\ store' = [store EXCEPT ![p] = "failed"]
              /\ pc' = [pc EXCEPT ![p] = "done"]
              /\ UNCHANGED <<orders, nextId, created>>
    /\ UNCHANGED <<ledger, topic, priceUpdates>>
    /\ UNCHANGED <<kind, items, userId, snaps, idx, tx, failed, updLog, pubLog, fetchLog>>
    /\ UNCHANGED readVars
    /\ UNCHANGED invPubLog
    /\ UNCHANGED gwVars
    /\ UNCHANGED <<produced, payVars, notifVars>>

\* A handler that gives up with 500 when updateProductStock returns an error
createOrder_UpdateStock_Abort(p) ==
    /\ pc[p] = "update" /\ kind[p] = "single"
    /\ \E outcome \in UpdateOutcomes :
         LET item == items[p][1]
             product == snaps[p][1]
         IN
         /\ ledger' = updateProductStock(ledger, item.product_id, product,
                                         NewStock(product, item.quantity), outcome)
         /\ invPubLog' = updateProductStock_Events(invPubLog, item.product_id,
                                                   NewStock(product, item.quantity), outcome)
         /\ updLog' = [updLog EXCEPT ![p] = Append(@, UpdateResult(outcome))]
         /\ IF outcome = "ok"
            THEN /\ pc' = [pc EXCEPT ![p] = "publish"]
                 /\ UNCHANGED resp
            ELSE /\ pc' = [pc EXCEPT ![p] = "done"]
                 /\ resp' = [resp EXCEPT ![p] =
                        Error(StatusInternalServerError, "Failed to update inventory", 0)]
    /\ UNCHANGED <<orders, nextId, topic, priceUpdates>>
    /\ UNCHANGED <<kind, items, userId, snaps, created, idx, tx, store, failed, pubLog, fetchLog>>
    /\ UNCHANGED readVars
    /\ UNCHANGED gwVars
    /\ UNCHANGED <<produced, payVars, notifVars>>

\* A handler that compensates: when updateProductStock returns an error it sets
\* the status of the row it inserted to failed
createOrder_UpdateStock_MarkFailed(p) ==
    /\ pc[p] = "update" /\ kind[p] = "single"
    /\ \E outcome \in UpdateOutcomes :
         LET item == items[p][1]
             product == snaps[p][1]
         IN
         /\ ledger' = updateProductStock(ledger, item.product_id, product,
                                         NewStock(product, item.quantity), outcome)
         /\ invPubLog' = updateProductStock_Events(invPubLog, item.product_id,
                                                   NewStock(product, item.quantity), outcome)
         /\ updLog' = [updLog EXCEPT ![p] = Append(@, UpdateResult(outcome))]
         /\ orders' = IF outcome = "ok" THEN orders
                      ELSE {IF r.by = p THEN [r EXCEPT !.status = "failed"] ELSE r :
                                r \in orders}
    /\ pc' = [pc EXCEPT ![p] = "publish"]
    /\ UNCHANGED <<nextId, topic, priceUpdates>>
    /\ UNCHANGED <<kind, items, userId, snaps, created, idx, resp, tx, store, failed, pubLog, fetchLog>>
    /\ UNCHANGED readVars
    /\ UNCHANGED gwVars
    /\ UNCHANGED <<produced, payVars, notifVars>>

\* A handler that calls updateProductStock a second time when the first call
\* returned an error
createOrder_UpdateStock_Retry(p) ==
    /\ pc[p] = "update" /\ kind[p] = "single"
    /\ \E outcome \in UpdateOutcomes :
         LET item == items[p][1]
             product == snaps[p][1]
         IN
         /\ ledger' = updateProductStock(ledger, item.product_id, product,
                                         NewStock(product, item.quantity), outcome)
         /\ invPubLog' = updateProductStock_Events(invPubLog, item.product_id,
                                                   NewStock(product, item.quantity), outcome)
         /\ updLog' = [updLog EXCEPT ![p] = Append(@, UpdateResult(outcome))]
         /\ pc' = [pc EXCEPT ![p] =
                      IF outcome # "ok" /\ updLog[p] = <<>> THEN "update" ELSE "publish"]
    /\ UNCHANGED <<orders, nextId, topic, priceUpdates>>
    /\ UNCHANGED <<kind, items, userId, snaps, created, idx, resp, tx, store, failed, pubLog, fetchLog>>
    /\ UNCHANGED readVars
    /\ UNCHANGED gwVars
    /\ UNCHANGED <<produced, payVars, notifVars>>

\* A handler that skips the publication when updateProductStock returned an error
createOrder_UpdateStock_SkipPublish(p) ==
    /\ pc[p] = "update" /\ kind[p] = "single"
    /\ \E outcome \in UpdateOutcomes :
         LET item == items[p][1]
             product == snaps[p][1]
         IN
         /\ ledger' = updateProductStock(ledger, item.product_id, product,
                                         NewStock(product, item.quantity), outcome)
         /\ invPubLog' = updateProductStock_Events(invPubLog, item.product_id,
                                                   NewStock(product, item.quantity), outcome)
         /\ updLog' = [updLog EXCEPT ![p] = Append(@, UpdateResult(outcome))]
         /\ pc' = [pc EXCEPT ![p] = IF outcome = "ok" THEN "publish" ELSE "respond"]
    /\ UNCHANGED <<orders, nextId, topic, priceUpdates>>
    /\ UNCHANGED <<kind, items, userId, snaps, created, idx, resp, tx, store, failed, pubLog, fetchLog>>
    /\ UNCHANGED readVars
    /\ UNCHANGED gwVars
    /\ UNCHANGED <<produced, payVars, notifVars>>

\* newStock := ...; err = updateProductStock(...); a failure is logged
createOrder_UpdateStock(p) ==
    /\ pc[p] = "update" /\ kind[p] = "single"
    /\ \E outcome \in UpdateOutcomes :
         LET item == items[p][1]
             product == snaps[p][1]
         IN
         /\ ledger' = updateProductStock(ledger, item.product_id, product,
                                         NewStock(product, item.quantity), outcome)
         /\ invPubLog' = updateProductStock_Events(invPubLog, item.product_id,
                                                   NewStock(product, item.quantity), outcome)
         /\ updLog' = [updLog EXCEPT ![p] = Append(@, UpdateResult(outcome))]
    /\ pc' = [pc EXCEPT ![p] = "publish"]
    /\ UNCHANGED <<orders, nextId, topic, priceUpdates>>
    /\ UNCHANGED <<kind, items, userId, snaps, created, idx, resp, tx, store, failed, pubLog, fetchLog>>
    /\ UNCHANGED readVars
    /\ UNCHANGED gwVars
    /\ UNCHANGED <<produced, payVars, notifVars>>

\* A handler that compensates: when the publication fails it deletes the row
createOrder_Publish_Undo(p) ==
    /\ pc[p] = "publish" /\ kind[p] = "single"
    /\ \E outcome \in PublishOutcomes :
         /\ topic' = publishEvent(topic, OrderCreated(created[p][1]), outcome)
         /\ pubLog' = [pubLog EXCEPT ![p] = Append(@, outcome)]
         /\ orders' = IF outcome = "ok" THEN orders ELSE {r \in orders : r.by # p}
    /\ pc' = [pc EXCEPT ![p] = "respond"]
    /\ UNCHANGED <<ledger, nextId, priceUpdates>>
    /\ UNCHANGED <<kind, items, userId, snaps, created, idx, resp, tx, store, failed, updLog, fetchLog>>
    /\ UNCHANGED readVars
    /\ UNCHANGED invPubLog
    /\ UNCHANGED gwVars
    /\ UNCHANGED <<produced, payVars, notifVars>>

\* publishEvent(event)
createOrder_Publish(p) ==
    /\ pc[p] = "publish" /\ kind[p] = "single"
    /\ \E outcome \in PublishOutcomes :
         /\ topic' = publishEvent(topic, OrderCreated(created[p][1]), outcome)
         /\ pubLog' = [pubLog EXCEPT ![p] = Append(@, outcome)]
    /\ pc' = [pc EXCEPT ![p] = "respond"]
    /\ UNCHANGED <<ledger, orders, nextId, priceUpdates>>
    /\ UNCHANGED <<kind, items, userId, snaps, created, idx, resp, tx, store, failed, updLog, fetchLog>>
    /\ UNCHANGED readVars
    /\ UNCHANGED invPubLog
    /\ UNCHANGED gwVars
    /\ UNCHANGED <<produced, payVars, notifVars>>

\* A handler that answers 500 when the stock update failed
createOrder_Respond_UpdateError(p) ==
    /\ pc[p] = "respond" /\ kind[p] = "single"
    /\ resp' = [resp EXCEPT ![p] =
            IF updLog[p] = <<"ok">> THEN Created(created[p])
            ELSE Error(StatusInternalServerError, "Failed to update inventory", 0)]
    /\ pc' = [pc EXCEPT ![p] = "done"]
    /\ UNCHANGED <<ledger, orders, nextId, topic, priceUpdates>>
    /\ UNCHANGED <<kind, items, userId, snaps, created, idx, tx, store, failed, updLog, pubLog, fetchLog>>
    /\ UNCHANGED readVars
    /\ UNCHANGED invPubLog
    /\ UNCHANGED gwVars
    /\ UNCHANGED <<produced, payVars, notifVars>>

\* w.WriteHeader(http.StatusCreated); json.NewEncoder(w).Encode(order)
createOrder_Respond(p) ==
    /\ pc[p] = "respond" /\ kind[p] = "single"
    /\ resp' = [resp EXCEPT ![p] = Created(created[p])]
    /\ pc' = [pc EXCEPT ![p] = "done"]
    /\ UNCHANGED <<ledger, orders, nextId, topic, priceUpdates>>
    /\ UNCHANGED <<kind, items, userId, snaps, created, idx, tx, store, failed, updLog, pubLog, fetchLog>>
    /\ UNCHANGED readVars
    /\ UNCHANGED invPubLog
    /\ UNCHANGED gwVars
    /\ UNCHANGED <<produced, payVars, notifVars>>

\* ------------------------------------ POST /orders/bulk (createBulkOrder)

\* json.NewDecoder(r.Body).Decode fails: 400 before anything else happens.
createBulkOrder_BadBody(p) ==
    /\ pc[p] = "idle"
    /\ Load < MaxLoad
    /\ kind' = [kind EXCEPT ![p] = "bulk"]
    /\ resp' = [resp EXCEPT ![p] = Error(StatusBadRequest, "decode error", 0)]
    /\ failed' = [failed EXCEPT ![p] = [line |-> 0, cause |-> "decode"]]
    /\ pc' = [pc EXCEPT ![p] = "done"]
    /\ UNCHANGED <<ledger, orders, nextId, topic, priceUpdates>>
    /\ UNCHANGED <<items, userId, snaps, created, idx, tx, store, updLog, pubLog, fetchLog>>
    /\ UNCHANGED readVars
    /\ UNCHANGED invPubLog
    /\ UNCHANGED gwVars
    /\ UNCHANGED <<produced, payVars, notifVars>>

\* A handler that rejects an empty item list with 400
createBulkOrder_Decode_RejectEmpty(p) ==
    /\ pc[p] = "idle"
    /\ Load < MaxLoad
    /\ \E n \in 0..(MaxLoad - Load) : \E its \in ItemSeqs(n) :
         /\ items' = [items EXCEPT ![p] = its]
         /\ pc' = [pc EXCEPT ![p] = IF its = <<>> THEN "done" ELSE "validate"]
         /\ resp' = [resp EXCEPT ![p] =
                IF its = <<>> THEN Error(StatusBadRequest, "no items", 0) ELSE @]
    /\ kind' = [kind EXCEPT ![p] = "bulk"]
    /\ idx' = [idx EXCEPT ![p] = 1]
    /\ UNCHANGED <<ledger, orders, nextId, topic, priceUpdates>>
    /\ UNCHANGED <<userId, snaps, created, tx, store, failed, updLog, pubLog, fetchLog>>
    /\ UNCHANGED readVars
    /\ UNCHANGED invPubLog
    /\ UNCHANGED gwVars
    /\ UNCHANGED <<produced, payVars, notifVars>>

\* Decode the body into bulkReq.Items.
createBulkOrder_Decode(p) ==
    /\ pc[p] = "idle"
    /\ Load < MaxLoad
    /\ \E n \in 0..(MaxLoad - Load) : \E its \in ItemSeqs(n) :
         /\ items' = [items EXCEPT ![p] = its]
         /\ pc' = [pc EXCEPT ![p] = IF its = <<>> THEN "begin" ELSE "validate"]
    /\ kind' = [kind EXCEPT ![p] = "bulk"]
    /\ idx' = [idx EXCEPT ![p] = 1]
    /\ UNCHANGED <<ledger, orders, nextId, topic, priceUpdates>>
    /\ UNCHANGED <<userId, snaps, created, resp, tx, store, failed, updLog, pubLog, fetchLog>>
    /\ UNCHANGED readVars
    /\ UNCHANGED invPubLog
    /\ UNCHANGED gwVars
    /\ UNCHANGED <<produced, payVars, notifVars>>

\* A validation loop whose insufficient-stock branch writes the 400 and does not
\* return: the item is kept and the loop goes on.
createBulkOrder_Validate_NoReturn(p) ==
    /\ pc[p] = "validate" /\ kind[p] = "bulk"
    /\ \E outcome \in FetchOutcomes :
         LET item == items[p][idx[p]]
             product == getProduct(item.product_id)
         IN
         IF outcome # "ok"
         THEN /\ resp' = [resp EXCEPT ![p] =
                     Error(StatusBadRequest, "Failed to fetch product", item.product_id)]
              /\ failed' = [failed EXCEPT ![p] = [line |-> idx[p], cause |-> "fetch"]]
              /\ pc' = [pc EXCEPT ![p] = "done"]
              /\ UNCHANGED <<snaps, idx>>
         ELSE /\ IF product.stock < item.quantity
                 THEN /\ resp' = [resp EXCEPT ![p] =
                             Error(StatusBadRequest, "Insufficient stock for product",
                                   item.product_id)]
                      /\ failed' = [failed EXCEPT ![p] = [line |-> idx[p], cause |-> "stock"]]
                 ELSE UNCHANGED <<resp, failed>>
              /\ snaps' = [snaps EXCEPT ![p] = Append(@, product)]
              /\ IF idx[p] = Len(items[p])
                 THEN /\ pc' = [pc EXCEPT ![p] = "begin"]
                      /\ idx' = [idx EXCEPT ![p] = 1]
                 ELSE /\ idx' = [idx EXCEPT ![p] = @ + 1]
                      /\ UNCHANGED pc
    /\ UNCHANGED <<ledger, orders, nextId, topic, priceUpdates>>
    /\ fetchLog' = [fetchLog EXCEPT ![p] = Append(@, idx[p])]
    /\ UNCHANGED <<kind, items, userId, created, tx, store, updLog, pubLog>>
    /\ UNCHANGED readVars
    /\ UNCHANGED invPubLog
    /\ UNCHANGED gwVars
    /\ UNCHANGED <<produced, payVars, notifVars>>

\* A validation loop whose 400 names the first product of the batch
createBulkOrder_Validate_NamesFirst(p) ==
    /\ pc[p] = "validate" /\ kind[p] = "bulk"
    /\ \E outcome \in FetchOutcomes :
         LET item == items[p][idx[p]]
             product == getProduct(item.product_id)
         IN
         IF outcome # "ok"
         THEN /\ resp' = [resp EXCEPT ![p] =
                     Error(StatusBadRequest, "Failed to fetch product",
                           items[p][1].product_id)]
              /\ failed' = [failed EXCEPT ![p] = [line |-> idx[p], cause |-> "fetch"]]
              /\ pc' = [pc EXCEPT ![p] = "done"]
              /\ UNCHANGED <<snaps, idx>>
         ELSE IF InsufficientStock(product, item.quantity)
         THEN /\ resp' = [resp EXCEPT ![p] =
                     Error(StatusBadRequest, "Insufficient stock for product",
                           items[p][1].product_id)]
              /\ failed' = [failed EXCEPT ![p] = [line |-> idx[p], cause |-> "stock"]]
              /\ pc' = [pc EXCEPT ![p] = "done"]
              /\ UNCHANGED <<snaps, idx>>
         ELSE /\ snaps' = [snaps EXCEPT ![p] = Append(@, product)]
              /\ IF idx[p] = Len(items[p])
                 THEN /\ pc' = [pc EXCEPT ![p] = "begin"]
                      /\ idx' = [idx EXCEPT ![p] = 1]
                 ELSE /\ idx' = [idx EXCEPT ![p] = @ + 1]
                      /\ UNCHANGED pc
              /\ UNCHANGED <<resp, failed>>
    /\ UNCHANGED <<ledger, orders, nextId, topic, priceUpdates>>
    /\ fetchLog' = [fetchLog EXCEPT ![p] = Append(@, idx[p])]
    /\ UNCHANGED <<kind, items, userId, created, tx, store, updLog, pubLog>>
    /\ UNCHANGED readVars
    /\ UNCHANGED invPubLog
    /\ UNCHANGED gwVars
    /\ UNCHANGED <<produced, payVars, notifVars>>

\* Validation phase, one iteration: fetch the item's product and check its stock.
createBulkOrder_Validate(p) ==
    /\ pc[p] = "validate" /\ kind[p] = "bulk"
    /\ \E outcome \in FetchOutcomes :
         LET item == items[p][idx[p]]
             product == getProduct(item.product_id)
         IN
         IF outcome # "ok"
         THEN /\ resp' = [resp EXCEPT ![p] =
                     Error(StatusBadRequest, "Failed to fetch product", item.product_id)]
              /\ failed' = [failed EXCEPT ![p] = [line |-> idx[p], cause |-> "fetch"]]
              /\ pc' = [pc EXCEPT ![p] = "done"]
              /\ UNCHANGED <<snaps, idx>>
         ELSE IF InsufficientStock(product, item.quantity)
         THEN /\ resp' = [resp EXCEPT ![p] =
                     Error(StatusBadRequest, "Insufficient stock for product",
                           item.product_id)]
              /\ failed' = [failed EXCEPT ![p] = [line |-> idx[p], cause |-> "stock"]]
              /\ pc' = [pc EXCEPT ![p] = "done"]
              /\ UNCHANGED <<snaps, idx>>
         ELSE /\ snaps' = [snaps EXCEPT ![p] = Append(@, product)]
              /\ IF idx[p] = Len(items[p])
                 THEN /\ pc' = [pc EXCEPT ![p] = "begin"]
                      /\ idx' = [idx EXCEPT ![p] = 1]
                 ELSE /\ idx' = [idx EXCEPT ![p] = @ + 1]
                      /\ UNCHANGED pc
              /\ UNCHANGED <<resp, failed>>
    /\ UNCHANGED <<ledger, orders, nextId, topic, priceUpdates>>
    /\ fetchLog' = [fetchLog EXCEPT ![p] = Append(@, idx[p])]
    /\ UNCHANGED <<kind, items, userId, created, tx, store, updLog, pubLog>>
    /\ UNCHANGED readVars
    /\ UNCHANGED invPubLog
    /\ UNCHANGED gwVars
    /\ UNCHANGED <<produced, payVars, notifVars>>

\* tx, err := db.Begin()
createBulkOrder_Begin(p) ==
    /\ pc[p] = "begin" /\ kind[p] = "bulk"
    /\ \E outcome \in StoreOutcomes :
         IF outcome = "ok"
         THEN /\ pc' = [pc EXCEPT ![p] = IF items[p] = <<>> THEN "commit" ELSE "insert"]
              /\ UNCHANGED <<resp, store>>
         ELSE /\ resp' = [resp EXCEPT ![p] =
                     Error(StatusInternalServerError, "Failed to start transaction", 0)]
              /\ store' = [store EXCEPT ![p] = "failed"]
              /\ pc' = [pc EXCEPT ![p] = "done"]
    /\ UNCHANGED <<ledger, orders, nextId, topic, priceUpdates>>
    /\ UNCHANGED <<kind, items, userId, snaps, created, idx, tx, failed, updLog, pubLog, fetchLog>>
    /\ UNCHANGED readVars
    /\ UNCHANGED invPubLog
    /\ UNCHANGED gwVars
    /\ UNCHANGED <<produced, payVars, notifVars>>

\* Transaction phase, one iteration: tx.QueryRow(INSERT ...).  On failure the
\* handler returns and the deferred tx.Rollback() discards the earlier inserts.
createBulkOrder_Insert(p) ==
    /\ pc[p] = "insert" /\ kind[p] = "bulk"
    /\ \E outcome \in StoreOutcomes :
         LET item == items[p][idx[p]]
             totalPrice == TotalPrice(snaps[p][idx[p]], item.quantity)
             after == TxInsert(orders, tx[p], InsertBulk(nextId, item, totalPrice, p, idx[p]))
         IN
         IF outcome = "ok"
         THEN /\ orders' = after.orders
              /\ tx' = [tx EXCEPT ![p] = after.tx]
              /\ created' = [created EXCEPT ![p] =
                                Append(@, BulkOrder(nextId, item, totalPrice))]
              /\ nextId' = nextId + 1
              /\ IF idx[p] = Len(items[p])
                 THEN /\ pc' = [pc EXCEPT ![p] = "commit"]
                      /\ idx' = [idx EXCEPT ![p] = 1]
                 ELSE /\ idx' = [idx EXCEPT ![p] = @ + 1]
                      /\ UNCHANGED pc
              /\ UNCHANGED <<resp, store>>
         ELSE /\ resp' = [resp EXCEPT ![p] =
                     Error(StatusInternalServerError, "Internal Server Error", 0)]
              /\ store' = [store EXCEPT ![p] = "failed"]
              /\ tx' = [tx EXCEPT ![p] = {}]
              /\ pc' = [pc EXCEPT ![p] = "done"]
              /\ UNCHANGED <<orders, created, nextId, idx>>
    /\ UNCHANGED <<ledger, topic, priceUpdates>>
    /\ UNCHANGED <<kind, items, userId, snaps, failed, updLog, pubLog, fetchLog>>
    /\ UNCHANGED readVars
    /\ UNCHANGED invPubLog
    /\ UNCHANGED gwVars
    /\ UNCHANGED <<produced, payVars, notifVars>>

\* A handler that writes the 500 when tx.Commit() fails and does not return
createBulkOrder_Commit_NoReturn(p) ==
    /\ pc[p] = "commit" /\ kind[p] = "bulk"
    /\ \E outcome \in StoreOutcomes :
         IF outcome = "ok"
         THEN /\ orders' = orders \cup tx[p]
              /\ store' = [store EXCEPT ![p] = "committed"]
              /\ UNCHANGED resp
         ELSE /\ resp' = [resp EXCEPT ![p] =
                     Error(StatusInternalServerError, "Internal Server Error", 0)]
              /\ store' = [store EXCEPT ![p] = "failed"]
              /\ UNCHANGED orders
    /\ pc' = [pc EXCEPT ![p] = IF created[p] = <<>> THEN "respond" ELSE "update"]
    /\ tx' = [tx EXCEPT ![p] = {}]
    /\ UNCHANGED <<ledger, nextId, topic, priceUpdates>>
    /\ UNCHANGED <<kind, items, userId, snaps, created, idx, failed, updLog, pubLog, fetchLog>>
    /\ UNCHANGED readVars
    /\ UNCHANGED invPubLog
    /\ UNCHANGED gwVars
    /\ UNCHANGED <<produced, payVars, notifVars>>

\* tx.Commit(): the transaction's rows become rows of the table, or none does.
createBulkOrder_Commit(p) ==
    /\ pc[p] = "commit" /\ kind[p] = "bulk"
    /\ \E outcome \in StoreOutcomes :
         IF outcome = "ok"
         THEN /\ orders' = orders \cup tx[p]
              /\ store' = [store EXCEPT ![p] = "committed"]
              /\ pc' = [pc EXCEPT ![p] = IF created[p] = <<>> THEN "respond" ELSE "update"]
              /\ UNCHANGED resp
         ELSE /\ resp' = [resp EXCEPT ![p] =
                     Error(StatusInternalServerError, "Internal Server Error", 0)]
              /\ store' = [store EXCEPT ![p] = "failed"]
              /\ pc' = [pc EXCEPT ![p] = "done"]
              /\ UNCHANGED orders
    /\ tx' = [tx EXCEPT ![p] = {}]
    /\ UNCHANGED <<ledger, nextId, topic, priceUpdates>>
    /\ UNCHANGED <<kind, items, userId, snaps, created, idx, failed, updLog, pubLog, fetchLog>>
    /\ UNCHANGED readVars
    /\ UNCHANGED invPubLog
    /\ UNCHANGED gwVars
    /\ UNCHANGED <<produced, payVars, notifVars>>

\* An external phase that leaves its loop when updateProductStock returns an error
createBulkOrder_UpdateStock_Break(p) ==
    /\ pc[p] = "update" /\ kind[p] = "bulk"
    /\ \E outcome \in UpdateOutcomes :
         LET item == items[p][idx[p]]
             product == snaps[p][idx[p]]
         IN
         /\ ledger' = updateProductStock(ledger, item.product_id, product,
                                         NewStock(product, item.quantity), outcome)
         /\ invPubLog' = updateProductStock_Events(invPubLog, item.product_id,
                                                   NewStock(product, item.quantity), outcome)
         /\ updLog' = [updLog EXCEPT ![p] = Append(@, UpdateResult(outcome))]
         /\ pc' = [pc EXCEPT ![p] = IF outcome = "ok" THEN "publish" ELSE "respond"]
    /\ UNCHANGED <<orders, nextId, topic, priceUpdates>>
    /\ UNCHANGED <<kind, items, userId, snaps, created, idx, resp, tx, store, failed, pubLog, fetchLog>>
    /\ UNCHANGED readVars
    /\ UNCHANGED gwVars
    /\ UNCHANGED <<produced, payVars, notifVars>>

\* External phase, first half of an iteration: updateProductStock for item i
createBulkOrder_UpdateStock(p) ==
    /\ pc[p] = "update" /\ kind[p] = "bulk"
    /\ \E outcome \in UpdateOutcomes :
         LET item == items[p][idx[p]]
             product == snaps[p][idx[p]]
         IN
         /\ ledger' = updateProductStock(ledger, item.product_id, product,
                                         NewStock(product, item.quantity), outcome)
         /\ invPubLog' = updateProductStock_Events(invPubLog, item.product_id,
                                                   NewStock(product, item.quantity), outcome)
         /\ updLog' = [updLog EXCEPT ![p] = Append(@, UpdateResult(outcome))]
    /\ pc' = [pc EXCEPT ![p] = "publish"]
    /\ UNCHANGED <<orders, nextId, topic, priceUpdates>>
    /\ UNCHANGED <<kind, items, userId, snaps, created, idx, resp, tx, store, failed, pubLog, fetchLog>>
    /\ UNCHANGED readVars
    /\ UNCHANGED gwVars
    /\ UNCHANGED <<produced, payVars, notifVars>>

\* An external phase that builds every event from the first created order
createBulkOrder_Publish_FirstOrder(p) ==
    /\ pc[p] = "publish" /\ kind[p] = "bulk"
    /\ \E outcome \in PublishOutcomes :
         /\ topic' = publishEvent(topic, OrderCreated(created[p][1]), outcome)
         /\ pubLog' = [pubLog EXCEPT ![p] = Append(@, outcome)]
    /\ IF idx[p] = Len(created[p])
       THEN /\ pc' = [pc EXCEPT ![p] = "respond"]
            /\ UNCHANGED idx
       ELSE /\ pc' = [pc EXCEPT ![p] = "update"]
            /\ idx' = [idx EXCEPT ![p] = @ + 1]
    /\ UNCHANGED <<ledger, orders, nextId, priceUpdates>>
    /\ UNCHANGED <<kind, items, userId, snaps, created, resp, tx, store, failed, updLog, fetchLog>>
    /\ UNCHANGED readVars
    /\ UNCHANGED invPubLog
    /\ UNCHANGED gwVars
    /\ UNCHANGED <<produced, payVars, notifVars>>

\* External phase, second half of an iteration: publishEvent for createdOrders[i]
createBulkOrder_Publish(p) ==
    /\ pc[p] = "publish" /\ kind[p] = "bulk"
    /\ \E outcome \in PublishOutcomes :
         /\ topic' = publishEvent(topic, OrderCreated(created[p][idx[p]]), outcome)
         /\ pubLog' = [pubLog EXCEPT ![p] = Append(@, outcome)]
    /\ IF idx[p] = Len(created[p])
       THEN /\ pc' = [pc EXCEPT ![p] = "respond"]
            /\ UNCHANGED idx
       ELSE /\ pc' = [pc EXCEPT ![p] = "update"]
            /\ idx' = [idx EXCEPT ![p] = @ + 1]
    /\ UNCHANGED <<ledger, orders, nextId, priceUpdates>>
    /\ UNCHANGED <<kind, items, userId, snaps, created, resp, tx, store, failed, updLog, fetchLog>>
    /\ UNCHANGED readVars
    /\ UNCHANGED invPubLog
    /\ UNCHANGED gwVars
    /\ UNCHANGED <<produced, payVars, notifVars>>

\* w.WriteHeader(http.StatusCreated); json.NewEncoder(w).Encode(createdOrders)
createBulkOrder_Respond(p) ==
    /\ pc[p] = "respond" /\ kind[p] = "bulk"
    /\ resp' = [resp EXCEPT ![p] = Created(created[p])]
    /\ pc' = [pc EXCEPT ![p] = "done"]
    /\ UNCHANGED <<ledger, orders, nextId, topic, priceUpdates>>
    /\ UNCHANGED <<kind, items, userId, snaps, created, idx, tx, store, failed, updLog, pubLog, fetchLog>>
    /\ UNCHANGED readVars
    /\ UNCHANGED invPubLog
    /\ UNCHANGED gwVars
    /\ UNCHANGED <<produced, payVars, notifVars>>

\* ------------------------------------------- other clients of the inventory

\* PUT /products/{id} by a catalogue client: the product gets another price.
updateProduct_Price(id) ==
    /\ priceUpdates < MaxPriceUpdates
    /\ priceUpdates' = priceUpdates + 1
    /\ \E price \in Prices \ {ledger[id].price} :
         ledger' = updateProduct(ledger, id, ledger[id].name, ledger[id].description,
                                 price, ledger[id].stock)
    /\ invPubLog' = updateProduct_Events(invPubLog, id, ledger[id].stock)
    /\ UNCHANGED <<orders, nextId, topic>>
    /\ UNCHANGED procVars
    /\ UNCHANGED readVars
    /\ UNCHANGED gwVars
    /\ UNCHANGED <<produced, payVars, notifVars>>

\* ------------------------------------------------- GET /orders (read side)

\* strconv.Atoi on the query strings the model sends
Numerals == [s \in {"-1", "0", "1", "2"} |->
                CASE s = "-1" -> 0 - 1 [] s = "0" -> 0 [] s = "1" -> 1 [] s = "2" -> 2]

Atoi(s) == IF s \in DOMAIN Numerals THEN [err |-> FALSE, n |-> Numerals[s]]
           ELSE [err |-> TRUE, n |-> 0]

LimitStrings == {"", "x", "-1", "1"}
OffsetStrings == {"", "-1", "1"}

\* rows.Scan(&o.ID, &o.UserID, &o.ProductID, &o.Quantity, &o.TotalPrice, &o.Status, ...)
ScanOrder(r) ==
    [id |-> r.id, user_id |-> r.user_id, product_id |-> r.product_id,
     quantity |-> r.quantity, total_price |-> r.total_price, status |-> r.status]

\* SELECT ... ORDER BY id DESC over a set of rows
RECURSIVE OrderByIdDesc(_)
OrderByIdDesc(rows) ==
    IF rows = {} THEN <<>>
    ELSE LET top == CHOOSE r \in rows : \A x \in rows : x.id <= r.id
         IN <<ScanOrder(top)>> \o OrderByIdDesc(rows \ {top})

\* LIMIT limit OFFSET offset
LimitOffset(os, limit, offset) ==
    LET last == IF offset + limit < Len(os) THEN offset + limit ELSE Len(os)
    IN SubSeq(os, offset + 1, last)

\* json.NewEncoder(w).Encode(orders) with the status left at 200
Ok(os) == [status |-> StatusOK, msg |-> "", product |-> 0, orders |-> os]

\* GET /orders?limit=..&offset=..
getOrders ==
    /\ reads < MaxReads
    /\ \E limitStr \in LimitStrings, offsetStr \in OffsetStrings, outcome \in StoreOutcomes :
         LET lim == IF limitStr = "" THEN [err |-> FALSE, n |-> DefaultLimit]
                    ELSE Atoi(limitStr)
             off == IF offsetStr = "" THEN [err |-> FALSE, n |-> 0] ELSE Atoi(offsetStr)
             limit == IF lim.n > LimitCap THEN LimitCap ELSE lim.n
         IN
         readResp' =
             IF lim.err \/ lim.n < 0 THEN Error(StatusBadRequest, "Invalid limit", 0)
             ELSE IF off.err \/ off.n < 0 THEN Error(StatusBadRequest, "Invalid offset", 0)
             ELSE IF outcome # "ok" THEN Error(StatusInternalServerError, "query error", 0)
             ELSE Ok(LimitOffset(OrderByIdDesc(orders), limit, off.n))
    /\ reads' = reads + 1
    /\ UNCHANGED <<ledger, orders, nextId, topic, priceUpdates>>
    /\ UNCHANGED procVars
    /\ UNCHANGED invPubLog
    /\ UNCHANGED gwVars
    /\ UNCHANGED <<produced, payVars, notifVars>>

\* GET /orders/{id}
getOrder(id) ==
    /\ reads < MaxReads
    /\ \E outcome \in StoreOutcomes :
         readResp' =
             IF outcome # "ok" THEN Error(StatusInternalServerError, "query error", 0)
             ELSE IF \E r \in orders : r.id = id
             THEN Ok(<<ScanOrder(CHOOSE r \in orders : r.id = id)>>)
             ELSE Error(StatusNotFound, "Order not found", 0)
    /\ reads' = reads + 1
    /\ UNCHANGED <<ledger, orders, nextId, topic, priceUpdates>>
    /\ UNCHANGED procVars
    /\ UNCHANGED invPubLog
    /\ UNCHANGED gwVars
    /\ UNCHANGED <<produced, payVars, notifVars>>

\* GET /orders/user/{userId}
getOrdersByUser(user) ==
    /\ reads < MaxReads
    /\ \E outcome \in StoreOutcomes :
         readResp' =
             IF outcome # "ok" THEN Error(StatusInternalServerError, "query error", 0)
             ELSE Ok(OrderByIdDesc({r \in orders : r.user_id = user}))
    /\ reads' = reads + 1
    /\ UNCHANGED <<ledger, orders, nextId, topic, priceUpdates>>
    /\ UNCHANGED procVars
    /\ UNCHANGED invPubLog
    /\ UNCHANGED gwVars
    /\ UNCHANGED <<produced, payVars, notifVars>>

\* ----------------------------------------------------------- specification

Next ==
    \/ \E p \in Procs : createOrder_BadBody(p)
    \/ \E p \in Procs : createOrder_Validate(p)
    \/ \E p \in Procs : createOrder_Insert(p)
    \/ \E p \in Procs : createOrder_UpdateStock(p)
    \/ \E p \in Procs : createOrder_Publish(p)
    \/ \E p \in Procs : createOrder_Respond(p)
    \/ \E p \in Procs : createBulkOrder_BadBody(p)
    \/ \E p \in Procs : createBulkOrder_Decode(p)
    \/ \E p \in Procs : createBulkOrder_Validate(p)
    \/ \E p \in Procs : createBulkOrder_Begin(p)
    \/ \E p \in Procs : createBulkOrder_Insert(p)
    \/ \E p \in Procs : createBulkOrder_Commit(p)
    \/ \E p \in Procs : createBulkOrder_UpdateStock(p)
    \/ \E p \in Procs : createBulkOrder_Publish(p)
    \/ \E p \in Procs : createBulkOrder_Respond(p)

\* The order service alone writes to the inventory.
Spec == Init /\ [][Next]_vars

NextPrice ==
    \/ Next
    \/ \E id \in Products : updateProduct_Price(id)

\* Other clients of the inventory change prices while orders are processed.
SpecPrice == Init /\ [][NextPrice]_vars

NextRead ==
    \/ Next
    \/ getOrders
    \/ \E id \in 1..nextId : getOrder(id)
    \/ \E user \in UserIds : getOrdersByUser(user)

\* Clients read the orders table while orders are processed.
SpecRead == Init /\ [][NextRead]_vars

\* The statements of a handler that has decoded its request, up to its return
Handler(p) ==
    \/ createOrder_Insert(p)
    \/ createOrder_UpdateStock(p)
    \/ createOrder_Publish(p)
    \/ createOrder_Respond(p)
    \/ createBulkOrder_Validate(p)
    \/ createBulkOrder_Begin(p)
    \/ createBulkOrder_Insert(p)
    \/ createBulkOrder_Commit(p)
    \/ createBulkOrder_UpdateStock(p)
    \/ createBulkOrder_Publish(p)
    \/ createBulkOrder_Respond(p)

\* Every call a handler makes returns (the HTTP client has a timeout, the store
\* and the bus answer), and the handler's goroutine keeps being scheduled.
SpecFair == Init /\ [][Next]_vars /\ \A p \in Procs : WF_vars(Handler(p))

\* At most one request is being handled
NoOverlap == \A p, q \in Procs : p # q => pc[p] \in {"idle", "done"} \/ pc[q] \in {"idle", "done"}

\* The requests arrive one after another: a request is received only when the
\* handler of the one before it has returned.
SpecSerial == Init /\ [][Next /\ NoOverlap']_vars

\* The order workflows over a catalogue whose first product was created well
\* stocked: orders take its stock to the low stock threshold and below it
InitStocked ==
    /\ ledger = [id \in Products |->
                    [id |-> id, name |-> "Laptop",
                     description |-> "High-performance laptop", price |-> 3,
                     stock |-> IF id = 1 THEN LowStockThreshold + InitStock ELSE InitStock]]
    /\ orders = {}
    /\ nextId = 1
    /\ topic = EmptyBag
    /\ priceUpdates = 0
    /\ pc = [p \in Procs |-> "idle"]
    /\ kind = [p \in Procs |-> "none"]
    /\ items = [p \in Procs |-> <<>>]
    /\ userId = [p \in Procs |-> 0]
    /\ snaps = [p \in Procs |-> <<>>]
    /\ created = [p \in Procs |-> <<>>]
    /\ idx = [p \in Procs |-> 0]
    /\ resp = [p \in Procs |-> NoResp]
    /\ tx = [p \in Procs |-> {}]
    /\ store = [p \in Procs |-> "none"]
    /\ failed = [p \in Procs |-> NoFailure]
    /\ updLog = [p \in Procs |-> <<>>]
    /\ pubLog = [p \in Procs |-> <<>>]
    /\ fetchLog = [p \in Procs |-> <<>>]
    /\ reads = 0
    /\ readResp = NoResp
    /\ invPubLog = <<>>
    /\ gwPc = "idle"
    /\ gwReq = NoRequest
    /\ doLog = <<>>
    /\ gwResp = NoGwResp
    /\ produced = 0
    /\ consumed = EmptyBag
    /\ payPc = "read"
    /\ payEvent = NoEvent
    /\ payments = {}
    /\ payNextId = 1
    /\ paymentTopic = EmptyBag
    /\ payLog = <<>>
    /\ notifPc = "running"
    /\ notifConsumed = [t \in Topics |-> EmptyBag]
    /\ notifLog = <<>>

SpecStocked == InitStocked /\ [][Next]_vars

\* ------------------------------------------------------------- API gateway

MaxPath == 2   \* characters of a request path after the route prefix

StatusServiceUnavailable == 503

inventoryServiceURL == "http://localhost:8081"
orderServiceURL == "http://localhost:8082"

Methods == {"GET", "POST"}
RoutePrefixes == {"/api/products", "/api/orders"}

\* The characters of a request path as the client writes them on the request
\* line: plain ones, and the percent-encodings of '?', '#' and '%'
PathChars == {"/", "1", "%3F", "%23", "%25"}
RawPaths == UNION {[1..n -> PathChars] : n \in 0..MaxPath}
RawQueries == {<<>>, <<"a=1">>}
Headers == {{}, {<<"X-Request-Id", "7">>}}
Bodies == {"", "{}"}

\* What a backend answers, and how httpClient.Do ends
BackendResponses ==
    [status : {StatusOK, StatusNotFound},
     header : {{}, {<<"Content-Type", "application/json">>}},
     body : {"", "[]"}]
DoOutcomes == {"ok", "refused", "timeout"}

\* http.Error(w, msg, code)
HttpError(msg, code) ==
    [status |-> code,
     header |-> {<<"Content-Type", "text/plain; charset=utf-8">>,
                 <<"X-Content-Type-Options", "nosniff">>},
     body |-> msg]

\* r.URL.Path: the server hands the handler the path of the request line with
\* its percent-encodings decoded
PercentDecoded(c) ==
    CASE c = "%3F" -> "?" [] c = "%23" -> "#" [] c = "%25" -> "%" [] OTHER -> c
URLPath(raw) == [i \in 1..Len(raw) |-> PercentDecoded(raw[i])]

\* The router passes a path on to a handler as it is only when it has no empty
\* segment; it answers any other path itself, with a redirect
CleanPath(path) == \A i \in 1..(Len(path) - 1) : ~(path[i] = "/" /\ path[i + 1] = "/")

\* strings.Cut(s, sep)
Cut(s, sep) ==
    IF \E i \in 1..Len(s) : s[i] = sep
    THEN LET i == CHOOSE i \in 1..Len(s) : s[i] = sep /\ \A j \in 1..(i - 1) : s[j] # sep
         IN [before |-> SubSeq(s, 1, i - 1), after |-> SubSeq(s, i + 1, Len(s)), found |-> TRUE]
    ELSE [before |-> s, after |-> <<>>, found |-> FALSE]

\* The hexadecimal digits among the characters of the model, and the byte two
\* of them stand for
ishex(c) == c = "1"
unhex(hi, lo) == "\\x" \o hi \o lo

\* What parsing a URL does to a path or a fragment: '%' and two hexadecimal
\* digits become one byte, any other '%' is an error
RECURSIVE unescape(_)
unescape(s) ==
    IF s = <<>> THEN [err |-> FALSE, s |-> <<>>]
    ELSE IF Head(s) = "%"
         THEN IF Len(s) >= 3 /\ ishex(s[2]) /\ ishex(s[3])
              THEN LET r == unescape(SubSeq(s, 4, Len(s)))
                   IN [err |-> r.err, s |-> <<unhex(s[2], s[3])>> \o r.s]
              ELSE [err |-> TRUE, s |-> <<>>]
         ELSE LET r == unescape(Tail(s))
              IN [err |-> r.err, s |-> <<Head(s)>> \o r.s]

\* http.NewRequest(method, url, body) parses the url string it is given: what
\* follows the first '#' is the fragment, which is not sent; of the rest, what
\* follows the first '?' is the query and what precedes it is the path, which
\* is decoded.  The client writes the path and the query on the request line,
\* and the backend reads them back as they are here.
ParseURL(rawURL) ==
    LET frag == Cut(rawURL, "#")
        query == Cut(frag.before, "?")
        path == unescape(query.before)
    IN [err |-> path.err \/ unescape(frag.after).err,
        path |-> path.s,
        rawQuery |-> query.after]

\* A request reaches the gateway and the router matches one of its two routes.
gateway_Request ==
    /\ gwPc = "idle"
    /\ \E method \in Methods, prefix \in RoutePrefixes, raw \in RawPaths,
          rawQuery \in RawQueries, header \in Headers, body \in Bodies :
         /\ CleanPath(URLPath(raw))
         /\ gwReq' = [method |-> method, path |-> <<prefix>> \o URLPath(raw),
                      rawQuery |-> rawQuery, header |-> header, body |-> body]
    /\ gwPc' = "proxy"
    /\ UNCHANGED <<doLog, gwResp>>
    /\ UNCHANGED <<ledger, orders, nextId, topic, priceUpdates>>
    /\ UNCHANGED procVars
    /\ UNCHANGED readVars
    /\ UNCHANGED invPubLog
    /\ UNCHANGED <<produced, payVars, notifVars>>

\* A proxy that calls the backend a second time when the first call failed
proxyRequest_Retry(targetURL, stripPrefix, newPrefix) ==
    /\ gwPc = "proxy"
    /\ LET path == IF stripPrefix # ""
                   THEN <<newPrefix>> \o SubSeq(gwReq.path, 2, Len(gwReq.path))
                   ELSE gwReq.path
           target == path \o (IF gwReq.rawQuery # <<>> THEN <<"?">> \o gwReq.rawQuery
                              ELSE <<>>)
           u == ParseURL(target)
           proxyReq == [host |-> targetURL, method |-> gwReq.method, path |-> u.path,
                        rawQuery |-> u.rawQuery, header |-> gwReq.header,
                        body |-> gwReq.body]
       IN IF u.err
          THEN /\ gwResp' = HttpError("Failed to create proxy request",
                                      StatusInternalServerError)
               /\ UNCHANGED doLog
          ELSE \E first \in DoOutcomes, outcome \in DoOutcomes :
                 LET tried == IF first = "ok" THEN doLog
                              ELSE Append(doLog, [req |-> proxyReq, err |-> TRUE,
                                                  resp |-> NoGwResp])
                 IN
                 /\ first = "ok" => outcome = "ok"
                 /\ IF outcome = "ok"
                    THEN \E answer \in BackendResponses :
                           /\ doLog' = Append(tried, [req |-> proxyReq, err |-> FALSE,
                                                      resp |-> answer])
                           /\ gwResp' = [status |-> answer.status,
                                         header |-> answer.header, body |-> answer.body]
                    ELSE /\ doLog' = Append(tried, [req |-> proxyReq, err |-> TRUE,
                                                    resp |-> NoGwResp])
                         /\ gwResp' = HttpError("Service unavailable",
                                                StatusServiceUnavailable)
    /\ gwPc' = "done"
    /\ UNCHANGED gwReq
    /\ UNCHANGED <<ledger, orders, nextId, topic, priceUpdates>>
    /\ UNCHANGED procVars
    /\ UNCHANGED readVars
    /\ UNCHANGED invPubLog
    /\ UNCHANGED <<produced, payVars, notifVars>>

\* proxyRequest(w, r, targetURL, stripPrefix, newPrefix): the target is put
\* together as a string from the decoded path and the raw query, parsed again by
\* http.NewRequest, and sent once; the answer is copied to the client, an error
\* of the call is answered 503.  The route prefix is one element of the path.
proxyRequest(targetURL, stripPrefix, newPrefix) ==
    /\ gwPc = "proxy"
    /\ LET path == IF stripPrefix # ""
                   THEN <<newPrefix>> \o SubSeq(gwReq.path, 2, Len(gwReq.path))
                   ELSE gwReq.path
           target == path \o (IF gwReq.rawQuery # <<>> THEN <<"?">> \o gwReq.rawQuery
                              ELSE <<>>)
           u == ParseURL(target)
           proxyReq == [host |-> targetURL, method |-> gwReq.method, path |-> u.path,
                        rawQuery |-> u.rawQuery, header |-> gwReq.header,
                        body |-> gwReq.body]
       IN IF u.err
          THEN /\ gwResp' = HttpError("Failed to create proxy request",
                                      StatusInternalServerError)
               /\ UNCHANGED doLog
          ELSE \E outcome \in DoOutcomes :
                 IF outcome = "ok"
                 THEN \E answer \in BackendResponses :
                        /\ doLog' = Append(doLog, [req |-> proxyReq, err |-> FALSE,
                                                   resp |-> answer])
                        /\ gwResp' = [status |-> answer.status, header |-> answer.header,
                                      body |-> answer.body]
                 ELSE /\ doLog' = Append(doLog, [req |-> proxyReq, err |-> TRUE,
                                                 resp |-> NoGwResp])
                      /\ gwResp' = HttpError("Service unavailable",
                                             StatusServiceUnavailable)
    /\ gwPc' = "done"
    /\ UNCHANGED gwReq
    /\ UNCHANGED <<ledger, orders, nextId, topic, priceUpdates>>
    /\ UNCHANGED procVars
    /\ UNCHANGED readVars
    /\ UNCHANGED invPubLog
    /\ UNCHANGED <<produced, payVars, notifVars>>

\* router.PathPrefix("/api/products").HandlerFunc(proxyToInventory)
proxyToInventory ==
    /\ gwReq.path # <<>> /\ gwReq.path[1] = "/api/products"
    /\ proxyRequest(inventoryServiceURL, "/api/products", "/products")

\* router.PathPrefix("/api/orders").HandlerFunc(proxyToOrders)
proxyToOrders ==
    /\ gwReq.path # <<>> /\ gwReq.path[1] = "/api/orders"
    /\ proxyRequest(orderServiceURL, "/api/orders", "/orders")

NextGateway ==
    \/ gateway_Request
    \/ proxyToInventory
    \/ proxyToOrders

\* The gateway answering one request, its backends answering as they please.
SpecGateway == Init /\ [][NextGateway]_vars

\* ------------------------------------------------------ event consumers

MaxProduced == 2   \* messages other producers write to the order-events topic

\* What other producers write to the order-events topic: bytes that are not
\* JSON, a JSON object without event_type, one whose event_type is a number
\* (written under the name event_type_num: a number cannot be compared with a
\* string here), an event of another type, and the order_created event of the
\* older order service.
OtherMessages ==
    {[bytes |-> "{oops"],
     [note |-> "hello"],
     [event_type_num |-> 7],
     [event_type |-> "order_cancelled", order_id |-> 1],
     [event_type |-> "order_created", order_id |-> 1, product_id |-> 1,
      quantity |-> 1, total_price |-> 3]}

\* kafkaWriter.WriteMessages by another producer of the order-events topic
orderEvents_Produce ==
    /\ produced < MaxProduced
    /\ produced' = produced + 1
    /\ \E msg \in OtherMessages : topic' = topic (+) SetToBag({msg})
    /\ UNCHANGED <<ledger, orders, nextId, priceUpdates>>
    /\ UNCHANGED procVars
    /\ UNCHANGED readVars
    /\ UNCHANGED invPubLog
    /\ UNCHANGED gwVars
    /\ UNCHANGED <<payVars, notifVars>>

\* json.Unmarshal(msg.Value, &event) returns no error
ValidJSON(msg) == "bytes" \notin DOMAIN msg

\* _, ok := event["event_type"].(string)
HasStringEventType(event) == "event_type" \in DOMAIN event

\* v, _ := event[key].(float64): zero when the key is absent
Float64(event, key) == IF key \in DOMAIN event THEN event[key] ELSE 0

\* An event filter that lets every order event through
IsOrderCreated_AnyOrderEvent(eventType) ==
    eventType \in {"order_created", "order_cancelled"}

\* if eventType == "order_created"
IsOrderCreated(eventType) == eventType = "order_created"

\* A payment recorded as pending
Payment_Pending(id, orderID, amount) ==
    [id |-> id, order_id |-> orderID, amount |-> amount, status |-> "pending"]

\* INSERT INTO payments (order_id, amount, status) VALUES ($1, $2, 'completed')
\* RETURNING id
Payment(id, orderID, amount) ==
    [id |-> id, order_id |-> orderID, amount |-> amount, status |-> "completed"]

\* paymentEvent := map[string]interface{}{"event_type": "payment_processed", ...}
PaymentProcessed(paymentID, orderID, amount, status) ==
    [event_type |-> "payment_processed", payment_id |-> paymentID,
     order_id |-> orderID, amount |-> amount, status |-> status]

\* What the consumer did with a message it read
Logged(msg, result) == [msg |-> msg, result |-> result]

\* A consumer that publishes the payment event also when the INSERT failed
payment_consumeMessages_PublishAnyway ==
    /\ payPc = "read"
    /\ \E msg \in BagToSet(topic (-) consumed) :
         /\ consumed' = consumed (+) SetToBag({msg})
         /\ IF ~ValidJSON(msg)
            THEN /\ payLog' = Append(payLog, Logged(msg, "unmarshal error"))
                 /\ UNCHANGED <<payPc, payEvent, payments, payNextId>>
            ELSE IF ~HasStringEventType(msg)
            THEN /\ payLog' = Append(payLog, Logged(msg, "no event type"))
                 /\ UNCHANGED <<payPc, payEvent, payments, payNextId>>
            ELSE IF ~IsOrderCreated(msg.event_type)
            THEN /\ payLog' = Append(payLog, Logged(msg, "ignored"))
                 /\ UNCHANGED <<payPc, payEvent, payments, payNextId>>
            ELSE LET orderID == Float64(msg, "order_id")
                     amount == Float64(msg, "total_price")
                 IN \E outcome \in StoreOutcomes :
                      IF outcome = "ok"
                      THEN /\ payments' = payments \cup {Payment(payNextId, orderID, amount)}
                           /\ payNextId' = payNextId + 1
                           /\ payEvent' = PaymentProcessed(payNextId, orderID, amount,
                                                           "completed")
                           /\ payPc' = "publish"
                           /\ payLog' = Append(payLog, Logged(msg, "inserted"))
                      ELSE /\ payLog' = Append(payLog, Logged(msg, "insert failed"))
                           /\ payEvent' = PaymentProcessed(0, orderID, amount, "completed")
                           /\ payPc' = "publish"
                           /\ UNCHANGED <<payments, payNextId>>
    /\ UNCHANGED <<topic, paymentTopic, produced>>
    /\ UNCHANGED <<ledger, orders, nextId, priceUpdates>>
    /\ UNCHANGED procVars
    /\ UNCHANGED readVars
    /\ UNCHANGED invPubLog
    /\ UNCHANGED gwVars
    /\ UNCHANGED notifVars

\* consumeMessages of the payment service, one turn of its loop: read a message
\* that has not been read, skip it unless it is an order_created event, else
\* run processPayment up to its INSERT; when the INSERT fails processPayment
\* returns, when it succeeds the payment event is ready to be published.
payment_consumeMessages ==
    /\ payPc = "read"
    /\ \E msg \in BagToSet(topic (-) consumed) :
         /\ consumed' = consumed (+) SetToBag({msg})
         /\ IF ~ValidJSON(msg)
            THEN /\ payLog' = Append(payLog, Logged(msg, "unmarshal error"))
                 /\ UNCHANGED <<payPc, payEvent, payments, payNextId>>
            ELSE IF ~HasStringEventType(msg)
            THEN /\ payLog' = Append(payLog, Logged(msg, "no event type"))
                 /\ UNCHANGED <<payPc, payEvent, payments, payNextId>>
            ELSE IF ~IsOrderCreated(msg.event_type)
            THEN /\ payLog' = Append(payLog, Logged(msg, "ignored"))
                 /\ UNCHANGED <<payPc, payEvent, payments, payNextId>>
            ELSE LET orderID == Float64(msg, "order_id")
                     amount == Float64(msg, "total_price")
                 IN \E outcome \in StoreOutcomes :
                      IF outcome = "ok"
                      THEN /\ payments' = payments \cup {Payment(payNextId, orderID, amount)}
                           /\ payNextId' = payNextId + 1
                           /\ payEvent' = PaymentProcessed(payNextId, orderID, amount,
                                                           "completed")
                           /\ payPc' = "publish"
                           /\ payLog' = Append(payLog, Logged(msg, "inserted"))
                      ELSE /\ payLog' = Append(payLog, Logged(msg, "insert failed"))
                           /\ UNCHANGED <<payPc, payEvent, payments, payNextId>>
    /\ UNCHANGED <<topic, paymentTopic, produced>>
    /\ UNCHANGED <<ledger, orders, nextId, priceUpdates>>
    /\ UNCHANGED procVars
    /\ UNCHANGED readVars
    /\ UNCHANGED invPubLog
    /\ UNCHANGED gwVars
    /\ UNCHANGED notifVars

\* processPayment, after its INSERT: publishEvent(paymentEvent), its error logged
processPayment_Publish ==
    /\ payPc = "publish"
    /\ \E outcome \in PublishOutcomes :
         paymentTopic' = publishEvent(paymentTopic, payEvent, outcome)
    /\ payPc' = "read"
    /\ payEvent' = NoEvent
    /\ UNCHANGED <<topic, produced, consumed, payments, payNextId, payLog>>
    /\ UNCHANGED <<ledger, orders, nextId, priceUpdates>>
    /\ UNCHANGED procVars
    /\ UNCHANGED readVars
    /\ UNCHANGED invPubLog
    /\ UNCHANGED gwVars
    /\ UNCHANGED notifVars

\* The messages of a sequence of publications, as a bag
BagOf(seq) ==
    [e \in {seq[i] : i \in DOMAIN seq} |-> Cardinality({i \in DOMAIN seq : seq[i] = e})]

\* The messages on a topic
TopicContent(t) ==
    CASE t = "order-events" -> topic
      [] t = "payment-events" -> paymentTopic
      [] t = "inventory-events" -> BagOf(invPubLog)

\* processNotification(event, eventType): the case of the switch that logs
processNotification(eventType) ==
    IF eventType \in {"order_created", "product_created", "product_updated",
                      "low_stock_alert", "product_deleted", "payment_processed"}
    THEN eventType
    ELSE "unknown"

\* consumeMessages of the notification service, one turn of the loop of the
\* goroutine that reads topic t.  event["event_type"].(string) is a type
\* assertion without the ok result: it panics when the value is not a string,
\* and a panic in a goroutine ends the process.
notification_consumeMessages(t) ==
    /\ notifPc = "running"
    /\ \E msg \in BagToSet(TopicContent(t) (-) notifConsumed[t]) :
         /\ notifConsumed' = [notifConsumed EXCEPT ![t] = @ (+) SetToBag({msg})]
         /\ IF ~ValidJSON(msg)
            THEN UNCHANGED <<notifPc, notifLog>>
            ELSE IF ~HasStringEventType(msg)
            THEN /\ notifPc' = "crashed"
                 /\ UNCHANGED notifLog
            ELSE /\ notifLog' = Append(notifLog, processNotification(msg.event_type))
                 /\ UNCHANGED notifPc
    /\ UNCHANGED <<topic, produced>>
    /\ UNCHANGED <<ledger, orders, nextId, priceUpdates>>
    /\ UNCHANGED procVars
    /\ UNCHANGED readVars
    /\ UNCHANGED invPubLog
    /\ UNCHANGED gwVars
    /\ UNCHANGED payVars

NextPayment ==
    \/ Next
    \/ payment_consumeMessages
    \/ processPayment_Publish

\* The order workflows with the payment service consuming their events.
SpecPayment == Init /\ [][NextPayment]_vars

NextConsumers ==
    \/ orderEvents_Produce
    \/ payment_consumeMessages
    \/ processPayment_Publish
    \/ \E t \in Topics : notification_consumeMessages(t)

\* The payment and notification services consuming what any producer writes.
SpecConsumers == Init /\ [][NextConsumers]_vars

\* ------------------------------------------------------------------ claims

\* The committed rows request p inserted
RowsOf(p) == {r \in orders : r.by = p}

\* The fields of a row that the orders table holds
Fields(r) ==
    [id |-> r.id, user_id |-> r.user_id, product_id |-> r.product_id,
     quantity |-> r.quantity, total_price |-> r.total_price, status |-> r.status]

\* Every line item of request p was fetched and its snapshot's stock covers it
Validated(p) ==
    /\ kind[p] # "none"
    /\ Len(snaps[p]) = Len(items[p])
    /\ \A k \in 1..Len(items[p]) : snaps[p][k].stock >= items[p][k].quantity

\* C1: every order row's total_price is the unit price of the snapshot fetched
\* for its line item during validation times the row's quantity, whatever the
\* ledger's price has become since.
C1_TotalPriceFromSnapshot ==
    \A r \in orders :
        /\ r.line \in 1..Len(snaps[r.by])
        /\ r.total_price = snaps[r.by][r.line].price * r.quantity

\* C1 witness: a bulk request ordered one product twice, the price changed between
\* its two fetches, and both rows are committed.
C1_Witness ==
    \E p \in Procs :
        /\ kind[p] = "bulk" /\ Len(snaps[p]) = 2
        /\ items[p][1].product_id = items[p][2].product_id
        /\ snaps[p][1].price # snaps[p][2].price
        /\ items[p][1].quantity > 0
        /\ Cardinality(RowsOf(p)) = 2

\* C2: a request has rows if and only if all its line items validated and its
\* insert or commit succeeded; a request answered with an error has none, and a
\* validated and committed request has exactly one row per line item.
C2_RowsIffValidatedAndCommitted ==
    \A p \in Procs :
        /\ RowsOf(p) # {} => Validated(p) /\ store[p] = "committed"
        /\ resp[p].status \in {StatusBadRequest, StatusInternalServerError} => RowsOf(p) = {}
        /\ Validated(p) /\ store[p] = "committed" =>
              /\ Cardinality(RowsOf(p)) = Len(items[p])
              /\ \A k \in 1..Len(items[p]) : \E r \in RowsOf(p) : r.line = k

\* C2 witness: one request is committed with its row while another was rejected
\* for insufficient stock and has none.
C2_Witness ==
    \E p, q \in Procs :
        /\ store[p] = "committed" /\ Cardinality(RowsOf(p)) = 1
        /\ failed[q].cause = "stock" /\ resp[q].status = StatusBadRequest
        /\ RowsOf(q) = {}

\* C3: a single-item request answered 201 has inserted exactly one row, with
\* status confirmed and the id, user id, product id, quantity and total price of
\* the order in the response; no other row has that id.
C3_CreatedMatchesRow ==
    \A p \in Procs :
        kind[p] = "single" /\ resp[p].status = StatusCreated =>
            /\ Len(resp[p].orders) = 1
            /\ resp[p].orders[1].status = "confirmed"
            /\ {Fields(r) : r \in RowsOf(p)} = {resp[p].orders[1]}
            /\ Cardinality({r \in orders : r.id = resp[p].orders[1].id}) = 1

\* C3 witness: a single-item request of user 1 is answered 201 while another
\* request for the same product, whose row was inserted first, is still running.
C3_Witness ==
    \E p, q \in Procs :
        /\ p # q
        /\ kind[p] = "single" /\ resp[p].status = StatusCreated
        /\ resp[p].orders[1].user_id = 1
        /\ kind[q] = "single" /\ pc[q] \in {"update", "publish"}
        /\ \E r \in RowsOf(q) : r.id < resp[p].orders[1].id
        /\ items[p] = items[q]

\* C4: a single-item request whose snapshot has less stock than the quantity
\* asked is answered 400, has no row, made no updateProductStock call and
\* published nothing.
C4_InsufficientStockSingle ==
    \A p \in Procs :
        kind[p] = "single" /\ Len(snaps[p]) = 1
            /\ snaps[p][1].stock < items[p][1].quantity =>
            /\ resp[p].status = StatusBadRequest
            /\ resp[p].msg = "Insufficient stock"
            /\ RowsOf(p) = {}
            /\ created[p] = <<>>
            /\ updLog[p] = <<>>
            /\ pubLog[p] = <<>>

\* C4 witness: the stock was 1 when fetched and 2 were asked for.
C4_Witness ==
    \E p \in Procs :
        /\ kind[p] = "single" /\ Len(snaps[p]) = 1
        /\ snaps[p][1].stock = 1 /\ items[p][1].quantity = 2
        /\ pc[p] = "done"

\* C5: a bulk request with a line item that failed validation (its fetch failed
\* or its snapshot's stock is too small) is answered 400 and has no row, neither
\* committed nor in a transaction, for any of its items.
C5_BulkValidationAllOrNothing ==
    \A p \in Procs :
        kind[p] = "bulk" /\ failed[p].line > 0 =>
            /\ resp[p].status = StatusBadRequest
            /\ RowsOf(p) = {}
            /\ tx[p] = {}
            /\ created[p] = <<>>
            /\ pc[p] = "done"

\* C5 witness: the first of two items validated, the second did not.
C5_Witness ==
    \E p \in Procs :
        /\ kind[p] = "bulk" /\ Len(items[p]) = 2
        /\ Len(snaps[p]) = 1 /\ failed[p].line = 2
        /\ snaps[p][1].stock >= items[p][1].quantity

\* C6: the rows of a bulk request become visible together or not at all; when
\* Begin, an INSERT or Commit failed no row of it is in the table and the answer
\* is 500, and when the commit succeeded all its rows are.
C6_BulkInsertsAtomic ==
    \A p \in Procs :
        kind[p] = "bulk" =>
            /\ Cardinality(RowsOf(p)) \in {0, Len(items[p])}
            /\ store[p] = "failed" =>
                  RowsOf(p) = {} /\ resp[p].status = StatusInternalServerError
            /\ store[p] = "committed" => Cardinality(RowsOf(p)) = Len(items[p])

\* C6 witness: the first INSERT of a two-item batch succeeded, the second failed.
C6_Witness ==
    \E p \in Procs :
        /\ kind[p] = "bulk" /\ Len(items[p]) = 2 /\ Len(snaps[p]) = 2
        /\ Len(created[p]) = 1 /\ store[p] = "failed"
        /\ pc[p] = "done"

\* The order as the caller sees it, without the id the store assigned
Sent(o) ==
    [user_id |-> o.user_id, product_id |-> o.product_id, quantity |-> o.quantity,
     total_price |-> o.total_price, status |-> o.status]

\* C7: two finished requests to the same endpoint with the same body, the same
\* outcome of validation and the same outcome of persistence got the same status
\* and the same order fields, whatever their stock updates and publications did;
\* the ids in a response are those the store assigned.
C7_ResponseIgnoresExternalPhase ==
    \A p, q \in Procs :
        /\ pc[p] = "done" /\ pc[q] = "done"
        /\ kind[p] = kind[q] /\ items[p] = items[q] /\ userId[p] = userId[q]
        /\ snaps[p] = snaps[q] /\ failed[p] = failed[q]
        /\ store[p] = store[q] /\ Len(created[p]) = Len(created[q])
        => /\ resp[p].status = resp[q].status
           /\ Len(resp[p].orders) = Len(resp[q].orders)
           /\ \A k \in 1..Len(resp[p].orders) :
                 /\ Sent(resp[p].orders[k]) = Sent(resp[q].orders[k])
                 /\ resp[p].orders[k].id = created[p][k].id

\* C7 witness: two equal single-item requests were both answered 201; the stock
\* update and the publication succeeded for one and failed for the other.
C7_Witness ==
    \E p, q \in Procs :
        /\ pc[p] = "done" /\ pc[q] = "done"
        /\ kind[p] = "single" /\ kind[q] = "single"
        /\ items[p] = items[q] /\ userId[p] = userId[q] /\ snaps[p] = snaps[q]
        /\ resp[p].status = StatusCreated /\ resp[q].status = StatusCreated
        /\ updLog[p] = <<"ok">> /\ updLog[q] = <<"failed">>
        /\ pubLog[p] = <<"ok">> /\ pubLog[q] = <<"failed">>

\* C8 as stated: once the stock update or the publication of a single-item
\* request has been attempted, its 201 has already been returned.
C8_Stated_ResponseBeforeExternalPhase ==
    \A p \in Procs :
        kind[p] = "single" /\ (updLog[p] # <<>> \/ pubLog[p] # <<>>) =>
            resp[p].status = StatusCreated

\* C8 as amended: the 201 of a single-item request is returned after its row was
\* inserted and after its stock update and its publication were each attempted
\* once; until then nothing has been written to the caller.
C8_ResponseAfterExternalPhase ==
    \A p \in Procs :
        kind[p] = "single" =>
            /\ resp[p].status = StatusCreated =>
                  /\ RowsOf(p) # {}
                  /\ Len(updLog[p]) = 1
                  /\ Len(pubLog[p]) = 1
            /\ pc[p] \in {"update", "publish", "respond"} => resp[p] = NoResp

\* C8 witness: a 201 was returned after a stock update that changed the ledger
\* and a publication that put the event on the topic.
C8_Witness ==
    \E p \in Procs :
        /\ kind[p] = "single" /\ resp[p].status = StatusCreated
        /\ items[p][1].quantity > 0
        /\ updLog[p] = <<"ok">> /\ pubLog[p] = <<"ok">>
        /\ BagIn(OrderCreated(resp[p].orders[1]), topic)

\* C9: when the stock update of a single-item request fails, the failing call
\* leaves the ledger as it was, the row stays in the table with status confirmed,
\* the publication is still attempted, and the caller gets 201 with a confirmed
\* order.
C9_UpdateFailureIsolated ==
    /\ [](\A p \in Procs :
            kind[p] = "single" /\ updLog[p] = <<"failed">> =>
                /\ \E r \in RowsOf(p) : r.status = "confirmed"
                /\ pc[p] \in {"publish", "respond", "done"}
                /\ pc[p] \in {"respond", "done"} => Len(pubLog[p]) = 1
                /\ pc[p] = "done" =>
                      /\ resp[p].status = StatusCreated
                      /\ resp[p].orders[1].status = "confirmed")
    /\ [][\A p \in Procs :
            kind[p] = "single" /\ updLog[p] = <<>> /\ updLog'[p] = <<"failed">> =>
                ledger' = ledger]_vars

\* C9 witness: the update failed, the event was published, the caller got 201 and
\* the product still has the stock the request saw.
C9_Witness ==
    \E p \in Procs :
        /\ kind[p] = "single" /\ updLog[p] = <<"failed">> /\ pubLog[p] = <<"ok">>
        /\ resp[p].status = StatusCreated
        /\ items[p][1].quantity > 0
        /\ ledger[items[p][1].product_id].stock = snaps[p][1].stock

\* C10 as stated: a request whose product fetch failed during validation is
\* answered with a 5xx status and has no row.
C10_Stated_FetchFailureIsServerError ==
    \A p \in Procs :
        failed[p].cause = "fetch" =>
            /\ resp[p].status >= StatusInternalServerError
            /\ RowsOf(p) = {}

\* C11: a single-item request whose INSERT failed is answered 500, has no row in
\* the table, and has made no updateProductStock call and no publication.
C11_InsertFailureSingle ==
    \A p \in Procs :
        kind[p] = "single" /\ store[p] = "failed" =>
            /\ pc[p] = "done"
            /\ resp[p].status = StatusInternalServerError
            /\ RowsOf(p) = {}
            /\ updLog[p] = <<>> /\ pubLog[p] = <<>>

\* C11 witness: the product was fetched, its stock covered the quantity, and the
\* INSERT failed.
C11_Witness ==
    \E p \in Procs :
        /\ kind[p] = "single" /\ store[p] = "failed"
        /\ Len(snaps[p]) = 1 /\ snaps[p][1].stock >= items[p][1].quantity
        /\ items[p][1].quantity > 0
        /\ resp[p].status = StatusInternalServerError

\* C12 as stated: every row has a quantity of at least 1, and a finished request
\* with a line item whose quantity is zero or negative, which met no failure of
\* the inventory service or of the store, was answered 400 and has no row.
C12_Stated_QuantityPositive ==
    /\ \A r \in orders : r.quantity >= 1
    /\ \A p \in Procs :
         (/\ pc[p] = "done"
          /\ failed[p].cause # "fetch" /\ store[p] # "failed"
          /\ \E k \in 1..Len(items[p]) : items[p][k].quantity <= 0) =>
             /\ resp[p].status = StatusBadRequest
             /\ RowsOf(p) = {}

\* Two single-item requests for one product that both saw the same stock, each
\* asking for no more than it and together for more than it
Overdraw(p, q) ==
    /\ p # q /\ kind[p] = "single" /\ kind[q] = "single"
    /\ Len(snaps[p]) = 1 /\ Len(snaps[q]) = 1
    /\ items[p][1].product_id = items[q][1].product_id
    /\ snaps[p][1].stock = snaps[q][1].stock
    /\ items[p][1].quantity >= 1 /\ items[p][1].quantity <= snaps[p][1].stock
    /\ items[q][1].quantity >= 1 /\ items[q][1].quantity <= snaps[q][1].stock
    /\ items[p][1].quantity + items[q][1].quantity > snaps[p][1].stock

\* C13: nothing between the stock read and the stock write stops two concurrent
\* single-item requests that overdraw a product: when neither meets a store
\* failure, both rows are committed and both callers get 201.
C13_OverdrawNotPrevented ==
    \A p, q \in Procs :
        (/\ Overdraw(p, q)
         /\ pc[p] = "done" /\ pc[q] = "done"
         /\ store[p] # "failed" /\ store[q] # "failed") =>
            /\ resp[p].status = StatusCreated /\ resp[q].status = StatusCreated
            /\ Cardinality(RowsOf(p)) = 1 /\ Cardinality(RowsOf(q)) = 1

\* C13 witness: the interleaving exists.  Both requests read the stock the ledger
\* started with, both rows are in the table, both callers got 201, and the
\* confirmed quantities add up to more than that stock.
C13_Witness ==
    \E p, q \in Procs :
        /\ Overdraw(p, q)
        /\ snaps[p][1].stock = InitStock
        /\ resp[p].status = StatusCreated /\ resp[q].status = StatusCreated
        /\ \E r1 \in RowsOf(p), r2 \in RowsOf(q) :
              /\ r1.status = "confirmed" /\ r2.status = "confirmed"
              /\ r1.quantity + r2.quantity > InitStock

\* C14: a bulk request makes an updateProductStock call or a publication only
\* when its transaction has committed and all its rows are in the table; a bulk
\* request that failed validation, or whose Begin, INSERT or Commit failed, has
\* made no such call and none of its orders has an event on the topic.
C14_BulkExternalPhaseAfterCommit ==
    \A p \in Procs :
        kind[p] = "bulk" =>
            /\ (updLog[p] # <<>> \/ pubLog[p] # <<>>) =>
                  /\ store[p] = "committed"
                  /\ Cardinality(RowsOf(p)) = Len(items[p])
            /\ (failed[p].cause # "none" \/ store[p] = "failed") =>
                  /\ updLog[p] = <<>> /\ pubLog[p] = <<>>
                  /\ \A k \in 1..Len(created[p]) :
                        ~BagIn(OrderCreated(created[p][k]), topic)

\* C14 witness: one bulk request has inserted all its rows and lost them to a
\* failed Commit, while another has committed and is in its external phase.
C14_Witness ==
    \E p, q \in Procs :
        /\ kind[p] = "bulk" /\ kind[q] = "bulk"
        /\ store[p] = "failed" /\ Len(created[p]) = Len(items[p]) /\ Len(items[p]) >= 1
        /\ pc[p] = "done"
        /\ store[q] = "committed" /\ Len(updLog[q]) >= 1

\* C15: in the external phase of a bulk request the calls come in list order, for
\* every created order one updateProductStock call and then one publication,
\* whatever the earlier calls returned: the i-th update call is made for item i
\* after i-1 publications, the i-th publication is made for order i after i
\* update calls, and the request ends with N calls of each kind, its N rows in
\* the table and a 201 that lists its N orders.
C15_BulkExternalPhasePerOrder ==
    /\ [](\A p \in Procs :
            kind[p] = "bulk" /\ store[p] = "committed" =>
                /\ Cardinality(RowsOf(p)) = Len(items[p])
                /\ pc[p] = "update" =>
                      Len(updLog[p]) = idx[p] - 1 /\ Len(pubLog[p]) = idx[p] - 1
                /\ pc[p] = "publish" =>
                      Len(updLog[p]) = idx[p] /\ Len(pubLog[p]) = idx[p] - 1
                /\ pc[p] \in {"respond", "done"} =>
                      /\ Len(updLog[p]) = Len(items[p])
                      /\ Len(pubLog[p]) = Len(items[p])
                      /\ Len(created[p]) = Len(items[p])
                /\ pc[p] = "done" =>
                      /\ resp[p].status = StatusCreated
                      /\ resp[p].orders = created[p])
    /\ [][\A p \in Procs :
            kind[p] = "bulk" =>
                /\ RowsOf(p) \subseteq {r \in orders' : r.by = p}
                /\ Len(updLog'[p]) > Len(updLog[p]) =>
                      LET i == Len(pubLog[p]) + 1 IN
                      /\ Len(updLog'[p]) = i
                      /\ updLog'[p][i] = "ok" =>
                            ledger'[items[p][i].product_id].stock =
                                snaps[p][i].stock - items[p][i].quantity
                      /\ updLog'[p][i] = "failed" => ledger' = ledger
                /\ Len(pubLog'[p]) > Len(pubLog[p]) =>
                      LET i == Len(updLog[p]) IN
                      /\ Len(pubLog'[p]) = i
                      /\ pubLog'[p][i] = "ok" =>
                            topic' = topic (+) SetToBag({OrderCreated(created[p][i])})
                      /\ pubLog'[p][i] = "failed" => topic' = topic]_vars

\* C15 witness: a bulk request of two items whose first stock update and first
\* publication failed went on to the second item, and was answered 201 with both
\* orders while both rows are in the table.
C15_Witness ==
    \E p \in Procs :
        /\ kind[p] = "bulk" /\ Len(items[p]) = 2 /\ pc[p] = "done"
        /\ updLog[p] = <<"failed", "ok">> /\ pubLog[p] = <<"failed", "ok">>
        /\ resp[p].status = StatusCreated /\ Len(resp[p].orders) = 2
        /\ Cardinality(RowsOf(p)) = 2

\* C16: a bulk request fetches its items one by one in request order and stops
\* at the first item that fails validation: the items before it were fetched
\* and passed, the 400 names that item's product, and no item after it is
\* fetched.
C16_BulkValidationStopsAtFirstFailure ==
    \A p \in Procs :
        kind[p] = "bulk" =>
            /\ Len(fetchLog[p]) <= Len(items[p])
            /\ \A i \in 1..Len(fetchLog[p]) : fetchLog[p][i] = i
            /\ failed[p].line > 0 =>
                  /\ pc[p] = "done"
                  /\ Len(fetchLog[p]) = failed[p].line
                  /\ Len(snaps[p]) = failed[p].line - 1
                  /\ \A j \in 1..Len(snaps[p]) :
                        /\ snaps[p][j].id = items[p][j].product_id
                        /\ snaps[p][j].stock >= items[p][j].quantity
                  /\ resp[p].status = StatusBadRequest
                  /\ resp[p].product = items[p][failed[p].line].product_id

\* C16 witness: the first of two items, for different products, asks for more
\* than the stock; the 400 names its product and the second item is not fetched.
C16_Witness ==
    \E p \in Procs :
        /\ kind[p] = "bulk" /\ Len(items[p]) = 2
        /\ items[p][1].product_id # items[p][2].product_id
        /\ failed[p] = [line |-> 1, cause |-> "stock"]
        /\ fetchLog[p] = <<1>>
        /\ resp[p].status = StatusBadRequest
        /\ resp[p].product = items[p][1].product_id

\* C17: every row of the orders table, and every row inserted in an open
\* transaction, has status confirmed in every reachable state, also once the
\* stock update or the publication made for it has failed.
C17_RowsStayConfirmed ==
    /\ \A r \in orders : r.status = "confirmed"
    /\ \A p \in Procs : \A r \in tx[p] : r.status = "confirmed"

\* C17 witness: the stock update and the publication of an order both failed,
\* its handler has returned, and its row is in the table as confirmed.
C17_Witness ==
    \E p \in Procs :
        /\ pc[p] = "done"
        /\ updLog[p] = <<"failed">> /\ pubLog[p] = <<"failed">>
        /\ \E r \in RowsOf(p) : r.status = "confirmed" /\ r.quantity >= 1

\* C18: no step of createOrder or createBulkOrder and no read endpoint of the
\* order service updates or deletes a row of the orders table: a row that is in
\* the table is in it, with every field as it was, after every step.
C18_RowsImmutable ==
    [][\A r \in orders : r \in orders']_vars

\* C18 witness: a row was committed, another request inserted a row after it, a
\* read request was answered with it, and its handler has returned.
C18_Witness ==
    \E p \in Procs :
        /\ pc[p] = "done"
        /\ \E r \in RowsOf(p) :
              /\ \E r2 \in orders : r2.by # p /\ r2.id > r.id
              /\ reads = 1 /\ readResp.status = StatusOK
              /\ \E i \in 1..Len(readResp.orders) : readResp.orders[i] = ScanOrder(r)

\* C19: a request calls getProductInfo at most once for each of its line items,
\* and updateProductStock and publishEvent at most once for each of its rows.
\* Every call is the next one of its kind in list order, whatever the earlier
\* calls returned, and a request whose handler has returned makes no call.
C19_NoRetries ==
    /\ [](\A p \in Procs :
            /\ Len(fetchLog[p]) <= Len(items[p])
            /\ \A i, j \in 1..Len(fetchLog[p]) : i # j => fetchLog[p][i] # fetchLog[p][j]
            /\ Len(updLog[p]) <= Cardinality(RowsOf(p))
            /\ Len(pubLog[p]) <= Cardinality(RowsOf(p)))
    /\ [][\A p \in Procs :
            /\ fetchLog'[p] # fetchLog[p] =>
                  fetchLog'[p] = Append(fetchLog[p], Len(fetchLog[p]) + 1)
            /\ updLog'[p] # updLog[p] =>
                  /\ Len(updLog'[p]) = Len(updLog[p]) + 1
                  /\ SubSeq(updLog'[p], 1, Len(updLog[p])) = updLog[p]
                  /\ Len(updLog[p]) = Len(pubLog[p])
                  /\ kind[p] = "bulk" => idx[p] = Len(updLog[p]) + 1
            /\ pubLog'[p] # pubLog[p] =>
                  /\ Len(pubLog'[p]) = Len(pubLog[p]) + 1
                  /\ SubSeq(pubLog'[p], 1, Len(pubLog[p])) = pubLog[p]
                  /\ Len(updLog[p]) = Len(pubLog[p]) + 1
                  /\ kind[p] = "bulk" => idx[p] = Len(pubLog[p]) + 1
            /\ pc[p] = "done" =>
                  /\ fetchLog'[p] = fetchLog[p]
                  /\ updLog'[p] = updLog[p]
                  /\ pubLog'[p] = pubLog[p]]_vars

\* C19 witness: one request ended on a failed fetch, the other on a failed stock
\* update and a failed publication, and each of the three calls was made once.
C19_Witness ==
    \E p, q \in Procs :
        /\ pc[p] = "done" /\ pc[q] = "done"
        /\ failed[p].cause = "fetch" /\ fetchLog[p] = <<1>>
        /\ fetchLog[q] = <<1>> /\ updLog[q] = <<"failed">> /\ pubLog[q] = <<"failed">>
        /\ Cardinality(RowsOf(q)) = 1

\* C20: every order_created message on the topic carries the id, the product
\* id, the quantity and the total price of a row that is in the orders table,
\* so of a row committed before the message was written, and the topic holds at
\* most one message for an order id.
C20_EventsMatchCommittedRows ==
    \A e \in BagToSet(topic) :
        /\ e.event_type = "order_created"
        /\ \E r \in orders : e = OrderCreated(Fields(r))
        /\ CopiesIn(e, topic) = 1
        /\ \A e2 \in BagToSet(topic) : e2.order_id = e.order_id => e2 = e

\* C20 witness: a bulk request of two items has published the events of both
\* its orders.
C20_Witness ==
    \E p \in Procs :
        /\ kind[p] = "bulk" /\ Len(created[p]) = 2
        /\ pubLog[p] = <<"ok", "ok">>
        /\ BagIn(OrderCreated(created[p][1]), topic)
        /\ BagIn(OrderCreated(created[p][2]), topic)
        /\ BagCardinality(topic) = 2

\* C21: the steps of a single-item request come in the order fetch, stock
\* check, insert, stock update, publication.  The row is inserted only after the
\* product was fetched and its stock covered the quantity; updateProductStock is
\* called only once the row is in the table; the publication is attempted only
\* once updateProductStock has returned, and it is attempted whether that call
\* succeeded or failed.
C21_SingleStepOrder ==
    /\ [](\A p \in Procs :
            kind[p] = "single" =>
                /\ RowsOf(p) # {} =>
                      /\ fetchLog[p] = <<1>> /\ Len(snaps[p]) = 1
                      /\ ~InsufficientStock(snaps[p][1], items[p][1].quantity)
                /\ updLog[p] # <<>> => RowsOf(p) # {}
                /\ pubLog[p] # <<>> => Len(updLog[p]) = 1
                /\ (store[p] = "committed" /\ pc[p] \in {"respond", "done"}) =>
                      Len(updLog[p]) = 1 /\ Len(pubLog[p]) = 1)
    /\ [][\A p \in Procs :
            kind[p] = "single" =>
                /\ updLog'[p] # updLog[p] => RowsOf(p) # {} /\ pubLog[p] = <<>>
                /\ pubLog'[p] # pubLog[p] => Len(updLog[p]) = 1]_vars

\* C21 witness: two single-item requests have returned with a row each; the
\* stock update of one succeeded, that of the other failed, and both attempted
\* the publication.
C21_Witness ==
    \E p, q \in Procs :
        /\ kind[p] = "single" /\ kind[q] = "single"
        /\ pc[p] = "done" /\ pc[q] = "done"
        /\ RowsOf(p) # {} /\ RowsOf(q) # {}
        /\ updLog[p] = <<"ok">> /\ Len(pubLog[p]) = 1
        /\ updLog[q] = <<"failed">> /\ Len(pubLog[q]) = 1

\* C22: the snapshot a request validates a line item against is the price and
\* the stock the ledger holds for the item's product at the moment of the
\* request's own getProductInfo call for that item: a snapshot is added to a
\* request only by a fetch of that request, and it is the ledger's row then.
C22_SnapshotIsOwnFreshFetch ==
    [][\A p \in Procs :
         snaps'[p] # snaps[p] =>
             LET k == Len(snaps[p]) + 1
                 id == items'[p][k].product_id
             IN /\ fetchLog'[p] = Append(fetchLog[p], k)
                /\ snaps'[p] = Append(snaps[p], [id |-> id, name |-> ledger[id].name,
                                                 price |-> ledger[id].price,
                                                 stock |-> ledger[id].stock])]_vars

\* C22 witness: two requests hold snapshots of the same product that differ in
\* price and in stock, each being what the ledger held when it was fetched.
C22_Witness ==
    \E p, q \in Procs :
        /\ p # q /\ Len(snaps[p]) = 1 /\ Len(snaps[q]) = 1
        /\ snaps[p][1].id = snaps[q][1].id
        /\ snaps[p][1].price # snaps[q][1].price
        /\ snaps[p][1].stock # snaps[q][1].stock
        /\ ledger[snaps[q][1].id].price = snaps[q][1].price
        /\ ledger[snaps[q][1].id].stock = snaps[q][1].stock

\* C23: every request the order service has received, single-item or bulk,
\* whatever its items and whatever the outcomes of its fetches, store
\* operations, stock updates and publications, reaches its return with a
\* response written (Rejected: an error status; Completed: 201).
C23_EveryRequestReturns ==
    \A p \in Procs :
        (kind[p] # "none") ~> (pc[p] = "done" /\ resp[p].status # NoResponse)

\* C23 witness: a bulk request of two items went through all its phases with
\* failing stock updates and publications and has returned.
C23_Witness ==
    \E p \in Procs :
        /\ kind[p] = "bulk" /\ Len(items[p]) = 2
        /\ updLog[p] = <<"failed", "failed">> /\ pubLog[p] = <<"failed", "failed">>
        /\ pc[p] = "done" /\ resp[p].status = StatusCreated

\* C24: when requests do not overlap, the ledger still holds the stock a
\* single-item request validated against when the request calls
\* updateProductStock, and a call that succeeds writes that stock minus the
\* ordered quantity: the product's stock after the request is its stock before
\* the request minus the quantity.
C24_SerialDecrement ==
    [][\A p \in Procs :
         (kind[p] = "single" /\ updLog'[p] # updLog[p]) =>
             LET id == items[p][1].product_id IN
             /\ ledger[id].stock = snaps[p][1].stock
             /\ updLog'[p] = <<"ok">> =>
                   /\ ledger'[id].stock = snaps[p][1].stock - items[p][1].quantity
                   /\ ledger'[id].stock = ledger[id].stock - items[p][1].quantity]_vars

\* C24 witness: two single-item requests for a product ran one after the other,
\* the second one after the first took the only unit, and the stock is what it
\* was minus both quantities.
C24_Witness ==
    \E p, q \in Procs :
        /\ p # q /\ kind[p] = "single" /\ kind[q] = "single"
        /\ pc[p] = "done" /\ pc[q] = "done"
        /\ updLog[p] = <<"ok">> /\ updLog[q] = <<"ok">>
        /\ items[p][1].product_id = items[q][1].product_id
        /\ items[p][1].quantity = 1
        /\ snaps[q][1].stock = InitStock - 1
        /\ ledger[items[p][1].product_id].stock =
               InitStock - items[p][1].quantity - items[q][1].quantity

\* The line item whose stock update request p is at
Updating(p) == IF kind[p] = "single" THEN items[p][1] ELSE items[p][idx[p]]

\* C25: whenever a request's stock update succeeds, the inventory service hands
\* to publishEvent a product_updated event for the product and, right after it,
\* a low_stock_alert event when the stock written is below 10, and no
\* low_stock_alert when it is 10 or more; when the update fails it hands over
\* no event at all.
C25_InventoryEvents ==
    [][\A p \in Procs :
         updLog'[p] # updLog[p] =>
             LET id == Updating(p).product_id
                 written == ledger'[id].stock
                 ok == updLog'[p][Len(updLog'[p])] = "ok"
                 updated == [event_type |-> "product_updated", product_id |-> id,
                             stock |-> written]
                 alert == [event_type |-> "low_stock_alert", product_id |-> id,
                           stock |-> written]
             IN /\ (ok /\ written < 10) => invPubLog' = invPubLog \o <<updated, alert>>
                /\ (ok /\ written >= 10) => invPubLog' = invPubLog \o <<updated>>
                /\ ~ok => invPubLog' = invPubLog]_vars

\* C25 witness: one successful update wrote a stock of 10 and was followed by no
\* alert, another wrote a stock of 9 and was followed by its alert.
C25_Witness ==
    /\ Len(invPubLog) = 3
    /\ \E i \in 1..3 :
          /\ invPubLog[i].event_type = "product_updated" /\ invPubLog[i].stock = 10
          /\ (i < 3 => invPubLog[i + 1].event_type = "product_updated")
    /\ \E j \in 1..2 :
          /\ invPubLog[j].event_type = "product_updated" /\ invPubLog[j].stock = 9
          /\ invPubLog[j + 1] = [invPubLog[j] EXCEPT !.event_type = "low_stock_alert"]
    /\ \A p \in Procs : pc[p] = "done" /\ resp[p].status = StatusCreated

\* The backend and the path prefix the route of the gateway's request leads to
RouteHost == IF gwReq.path[1] = "/api/orders" THEN orderServiceURL ELSE inventoryServiceURL
RoutePath == IF gwReq.path[1] = "/api/orders" THEN "/orders" ELSE "/products"

\* C26, as stated: every request whose path starts with /api/orders (or
\* /api/products) is forwarded to the order (or inventory) backend with the path
\* /orders (or /products) followed by the remainder of the original path, with
\* the same method, query string, headers and body, and the backend's status,
\* headers and body are returned to the client unmodified.
C26_Stated_TransparentProxy ==
    gwPc = "done" =>
        /\ Len(doLog) = 1
        /\ doLog[1].req = [host |-> RouteHost, method |-> gwReq.method,
                           path |-> <<RoutePath>> \o Tail(gwReq.path),
                           rawQuery |-> gwReq.rawQuery, header |-> gwReq.header,
                           body |-> gwReq.body]
        /\ ~doLog[1].err => gwResp = doLog[1].resp

\* C27: when the gateway's call of the backend fails the client is answered 503
\* with the gateway's own message and headers, nothing of a backend response,
\* and the backend has been called once.
C27_BackendFailureIs503 ==
    (gwPc = "done" /\ doLog # <<>> /\ doLog[1].err) =>
        /\ gwResp = [status |-> 503,
                     header |-> {<<"Content-Type", "text/plain; charset=utf-8">>,
                                 <<"X-Content-Type-Options", "nosniff">>},
                     body |-> "Service unavailable"]
        /\ Len(doLog) = 1

\* C27 witness: a request was forwarded, the call failed and 503 was answered.
C27_Witness ==
    /\ gwPc = "done"
    /\ Len(doLog) = 1 /\ doLog[1].err
    /\ doLog[1].req.path = <<"/orders", "/", "1">>
    /\ gwResp.status = 503

\* The product snapshot the stock update request p is at was computed from
Snapshot(p) == IF kind[p] = "single" THEN snaps[p][1] ELSE snaps[p][idx[p]]

\* C28: with the order workflows as the only writers of stock, however they
\* overlap, the ledger stock of every product is never negative: every value
\* written is the stock of the writer's snapshot minus a quantity that is not
\* more than that stock.
C28_StockNeverNegative ==
    /\ [](\A id \in Products : ledger[id].stock >= 0)
    /\ [][\A p \in Procs :
            (updLog'[p] # updLog[p] /\ ledger' # ledger) =>
                LET id == Updating(p).product_id IN
                /\ Updating(p).quantity <= Snapshot(p).stock
                /\ ledger'[id].stock = Snapshot(p).stock - Updating(p).quantity]_vars

\* C28 witness: two requests passed the stock check for the last unit of the
\* same product, both wrote the stock, and the ledger holds zero.
C28_Witness ==
    \E p, q \in Procs :
        /\ p # q /\ pc[p] = "done" /\ pc[q] = "done"
        /\ kind[p] = "single" /\ kind[q] = "bulk"
        /\ updLog[p] = <<"ok">> /\ updLog[q] = <<"ok">>
        /\ items[p][1] = [product_id |-> 1, quantity |-> InitStock]
        /\ items[q] = <<[product_id |-> 1, quantity |-> InitStock]>>
        /\ snaps[p][1].stock = InitStock /\ snaps[q][1].stock = InitStock
        /\ ledger[1].stock = 0

\* The stock a product was created with in the well stocked catalogue
StockedAtStart(id) == IF id = 1 THEN LowStockThreshold + InitStock ELSE InitStock

\* C29, as stated: when two overlapping single-item requests for the same
\* product have both been answered 201 and both their stock updates succeeded,
\* the ledger stock of the product is its initial stock minus the sum of the
\* two ordered quantities.
C29_Stated_NoLostDecrement ==
    \A p, q \in Procs :
        (/\ p # q /\ kind[p] = "single" /\ kind[q] = "single"
         /\ pc[p] = "done" /\ pc[q] = "done"
         /\ resp[p].status = StatusCreated /\ resp[q].status = StatusCreated
         /\ updLog[p] = <<"ok">> /\ updLog[q] = <<"ok">>
         /\ items[p][1].product_id = items[q][1].product_id
         /\ items[p][1].quantity > 0 /\ items[q][1].quantity > 0)
        => ledger[items[p][1].product_id].stock =
               StockedAtStart(items[p][1].product_id)
                   - (items[p][1].quantity + items[q][1].quantity)

\* The total quantity the line items its order for product id
RECURSIVE QuantityFor(_, _)
QuantityFor(its, id) ==
    IF its = <<>> THEN 0
    ELSE (IF Head(its).product_id = id THEN Head(its).quantity ELSE 0)
         + QuantityFor(Tail(its), id)

\* C30, as stated: after a bulk request whose stock updates all succeeded, and
\* with no other request, the ledger stock of every product of the batch is its
\* stock before the request minus the total quantity the batch orders of it,
\* also when several line items name the product.
C30_Stated_BulkDecrementsTotal ==
    \A p \in Procs :
        (/\ kind[p] = "bulk" /\ pc[p] = "done" /\ resp[p].status = StatusCreated
         /\ \A q \in Procs \ {p} : kind[q] = "none"
         /\ Len(updLog[p]) = Len(items[p])
         /\ \A i \in 1..Len(updLog[p]) : updLog[p][i] = "ok"
         /\ \A i \in 1..Len(items[p]) : items[p][i].quantity > 0)
        => \A i \in 1..Len(items[p]) :
               LET id == items[p][i].product_id
               IN ledger[id].stock = StockedAtStart(id) - QuantityFor(items[p], id)

\* C31, as stated: a successful stock update by an order request changes only
\* the stock of the product: its name, description and price in the ledger
\* after the update are those the ledger held immediately before it.
C31_Stated_UpdateChangesOnlyStock ==
    [][\A p \in Procs :
         (/\ updLog'[p] # updLog[p] /\ updLog'[p][Len(updLog'[p])] = "ok"
          /\ Updating(p).quantity > 0) =>
             LET id == Updating(p).product_id IN
             /\ ledger'[id].name = ledger[id].name
             /\ ledger'[id].description = ledger[id].description
             /\ ledger'[id].price = ledger[id].price]_vars

\* What an order row holds apart from the id the store assigned
RowContent(r) ==
    [user_id |-> r.user_id, product_id |-> r.product_id, quantity |-> r.quantity,
     total_price |-> r.total_price, status |-> r.status]

\* What the order_created messages on the topic for the rows of request p
\* hold apart from the order id
EventContent(p) ==
    {[event_type |-> e.event_type, product_id |-> e.product_id,
      quantity |-> e.quantity, total_price |-> e.total_price] :
        e \in {e \in BagToSet(topic) : \E r \in RowsOf(p) : e.order_id = r.id}}

\* A single-item request with user id 0 and a bulk request of one line item, for
\* the same product and quantity, that read the same product from the ledger
\* and met the same outcomes of the inventory calls, the store and the bus
SameAsBulkOfOne(p, q) ==
    /\ kind[p] = "single" /\ userId[p] = 0
    /\ kind[q] = "bulk" /\ Len(items[q]) = 1 /\ items[q] = items[p]
    /\ pc[p] = "done" /\ pc[q] = "done"
    /\ snaps[p] = snaps[q] /\ failed[p].cause = failed[q].cause
    /\ store[p] = store[q] /\ updLog[p] = updLog[q] /\ pubLog[p] = pubLog[q]

\* C32: a bulk request of exactly one line item creates an order row if and only
\* if the single-item request with user id 0 for the same product and quantity
\* does, given the same ledger row read and the same outcomes of the inventory
\* calls, the store and the bus; the two rows then agree on product id,
\* quantity, total price and status, the same new stock is written to the
\* ledger, and the order_created messages agree on their fields.
C32_BulkOfOneIsSingle ==
    \A p, q \in Procs :
        SameAsBulkOfOne(p, q) =>
            /\ RowsOf(p) = {} <=> RowsOf(q) = {}
            /\ {RowContent(r) : r \in RowsOf(p)} = {RowContent(r) : r \in RowsOf(q)}
            /\ updLog[p] = <<"ok">> =>
                   ledger[items[p][1].product_id].stock =
                       snaps[p][1].stock - items[p][1].quantity
            /\ EventContent(p) = EventContent(q)

\* C32 witness: such a pair of requests, both of which created their row, wrote
\* the stock and published their event.
C32_Witness ==
    \E p, q \in Procs :
        /\ SameAsBulkOfOne(p, q)
        /\ items[p][1].quantity = 1
        /\ Cardinality(RowsOf(p)) = 1 /\ Cardinality(RowsOf(q)) = 1
        /\ updLog[p] = <<"ok">> /\ pubLog[p] = <<"ok">>
        /\ Cardinality(EventContent(p)) = 1

\* Request p is a bulk request whose body decoded to an empty item list
EmptyBulk(p) == kind[p] = "bulk" /\ items[p] = <<>> /\ failed[p].cause # "decode"

\* C33, as stated: a bulk request whose item list is empty is answered 201,
\* creates no order row, makes no product fetch and no stock update and
\* publishes no event.
C33_Stated_EmptyBulkIsCreated ==
    \A p \in Procs :
        (EmptyBulk(p) /\ pc[p] = "done") =>
            /\ resp[p].status = StatusCreated
            /\ RowsOf(p) = {}
            /\ fetchLog[p] = <<>> /\ updLog[p] = <<>> /\ pubLog[p] = <<>>

\* C33, as amended: a bulk request whose item list is empty still begins and
\* commits a transaction; it is answered 201 with no orders when both succeed
\* and 500 when either fails, and in both cases it creates no order row, makes
\* no product fetch and no stock update and publishes no event.
C33_EmptyBulk ==
    \A p \in Procs :
        EmptyBulk(p) =>
            /\ RowsOf(p) = {} /\ tx[p] = {} /\ created[p] = <<>>
            /\ fetchLog[p] = <<>> /\ updLog[p] = <<>> /\ pubLog[p] = <<>>
            /\ pc[p] = "done" =>
                  \/ store[p] = "committed" /\ resp[p] = Created(<<>>)
                  \/ store[p] = "failed" /\ resp[p].status = StatusInternalServerError

\* C33 witness: an empty bulk request was answered 201 while another request
\* for an item created a row.
C33_Witness ==
    \E p, q \in Procs :
        /\ EmptyBulk(p) /\ pc[p] = "done" /\ resp[p].status = StatusCreated
        /\ store[p] = "committed"
        /\ RowsOf(q) # {}

\* C34: every order row the bulk workflow created has user id 0, and a row the
\* single-item workflow created has the user id of its request; so the
\* orders-by-user query for a user id other than 0 never returns an order the
\* bulk workflow created.
C34_BulkRowsBelongToUserZero ==
    /\ [](\A r \in orders :
            /\ kind[r.by] = "bulk" => r.user_id = 0
            /\ kind[r.by] = "single" => r.user_id = userId[r.by])
    /\ [][\A user \in UserIds \ {0} :
            getOrdersByUser(user) =>
                \A k \in 1..Len(readResp'.orders) :
                    \A r \in orders :
                        r.id = readResp'.orders[k].id => kind[r.by] # "bulk"]_vars

\* C34 witness: the table holds a row of a bulk request and a row of a
\* single-item request of user 1, and a query has returned the latter alone.
C34_Witness ==
    \E r, b \in orders :
        /\ kind[r.by] = "single" /\ r.user_id = 1
        /\ kind[b.by] = "bulk"
        /\ reads = 1 /\ readResp = Ok(<<ScanOrder(r)>>)
        /\ b.id < r.id


\* A message the payment consumer passes to processPayment
IsOrderCreatedMessage(msg) ==
    /\ ValidJSON(msg)
    /\ HasStringEventType(msg)
    /\ msg.event_type = "order_created"

\* The messages the payment consumer reads in this step
ReadNow == BagToSet(consumed' (-) consumed)

\* The entries of the payment consumer's log with this result
LogEntries(result) == {i \in DOMAIN payLog : payLog[i].result = result}

\* C35: every payment row was created while processing an order_created event
\* consumed from the order-events topic; its order id and amount are that
\* event's order_id and total_price, and its status is 'completed'.
C35_PaymentRowsComeFromOrderEvents ==
    /\ [](\A row \in payments :
            /\ row.status = "completed"
            /\ \E msg \in BagToSet(consumed) :
                 /\ CopiesIn(msg, topic) > 0
                 /\ IsOrderCreatedMessage(msg)
                 /\ row.order_id = msg.order_id
                 /\ row.amount = msg.total_price)
    /\ [][\A row \in payments' \ payments :
            \E msg \in ReadNow :
                /\ IsOrderCreatedMessage(msg)
                /\ row.order_id = msg.order_id
                /\ row.amount = msg.total_price
                /\ row.status = "completed"]_vars

\* Two orders have been paid, one of them a line item of a bulk order
C35_Witness ==
    /\ Cardinality(payments) = 2
    /\ \E row \in payments :
         \E o \in orders : o.id = row.order_id /\ o.user_id = 0 /\ row.amount = o.total_price

\* C36: a payment_processed event is published only after the payment row for
\* the message has been inserted, and carries the id of that row; when the
\* insert fails no event is published for the message and the message is not
\* processed again.
C36_EventOnlyAfterInsert ==
    /\ [](/\ \A e \in BagToSet(paymentTopic) \cup (IF payPc = "publish" THEN {payEvent} ELSE {}) :
               /\ e.event_type = "payment_processed"
               /\ \E row \in payments :
                    /\ row.id = e.payment_id
                    /\ row.order_id = e.order_id
                    /\ row.amount = e.amount
                    /\ row.status = e.status
          /\ \A e \in BagToSet(paymentTopic) : CopiesIn(e, paymentTopic) = 1
          /\ Cardinality(payments) = Cardinality(LogEntries("inserted"))
          /\ \A msg \in BagToSet(topic) :
               Cardinality({i \in DOMAIN payLog : payLog[i].msg = msg})
                   = CopiesIn(msg, consumed)
          /\ \A msg \in BagToSet(consumed) : CopiesIn(msg, consumed) <= CopiesIn(msg, topic))
    /\ [][(Len(payLog') > Len(payLog) /\ payLog'[Len(payLog')].result = "insert failed")
            => /\ payPc' = "read"
               /\ payEvent' = NoEvent
               /\ payments' = payments
               /\ paymentTopic' = paymentTopic
               /\ ReadNow = {payLog'[Len(payLog')].msg}]_vars

\* One insert failed and another message was paid and its event published
C36_Witness ==
    /\ LogEntries("insert failed") # {}
    /\ LogEntries("inserted") # {}
    /\ paymentTopic # EmptyBag
    /\ payPc = "read"

\* A message the payment consumer has to skip
Skipped(msg) == ~IsOrderCreatedMessage(msg)

\* C37: a message on the order-events topic that is not valid JSON, has no
\* string event_type, or has an event_type other than order_created creates no
\* payment row and no payment_processed event, and the payment consumer goes on
\* to read the next message.
C37_OtherMessagesAreSkipped ==
    [][\A msg \in ReadNow :
         Skipped(msg) => /\ payments' = payments
                         /\ paymentTopic' = paymentTopic
                         /\ payEvent' = NoEvent
                         /\ payPc' = "read"]_vars

\* A message to skip was read first, and the order_created event read after it
\* was paid
C37_Witness ==
    /\ payPc = "publish"
    /\ Len(payLog) = 2
    /\ payLog[1].result \in {"unmarshal error", "no event type", "ignored"}
    /\ payLog[2].result = "inserted"

\* C38: the notification consumer keeps consuming after every message: a
\* message that is not valid JSON, or valid JSON without a string event_type,
\* is skipped and the next message on the topic is still processed.
C38_Stated_KeepsConsuming ==
    \A t \in Topics :
        \A msg \in BagToSet(notifConsumed[t]) :
            (~ValidJSON(msg) \/ ~HasStringEventType(msg)) => notifPc = "running"

====
